---- MODULE Spec2Model ----
(***************************************************************************)
(* Session-lifecycle state tracker of agent-soul: the per-tool-call        *)
(* counter hook, the periodic (stop) milestone check, the pre-compaction   *)
(* flag writer and the session start / end hooks, over the files they      *)
(* share in <project>/sessions and <project>/sessions/config.              *)
(***************************************************************************)
EXTENDS Integers, Sequences, FiniteSets, TLC

\* ---------------------------------------------------------------- bounds
MaxCount == 130        \* count-tool stops being invoked at this stored count
MaxLog == 2            \* pre-compaction stops once a record holds this many log lines
MaxFaultCount == 51    \* the same cap as MaxCount, where file operations may fail
MaxRecords == 2        \* start triggers create no record beyond this many
MaxSlugLen == 3        \* longest enumerated slug of a file name
MaxFlagCount == 2      \* the cap on the stored count where payloads lack their fields
MaxHookRecords == 1    \* start triggers create no record beyond this many where stdin may be malformed
MaxMilestoneCount == 100   \* count-tool stops at this stored count where titles are set
MaxEntries == 3        \* most entries of a listed directory
MaxRaceCount == 6      \* count-tool processes started where they may overlap
MaxOverlap == 2        \* most count-tool invocations that overlap
MaxTranscript == 60    \* most [Tool call] markers in a transcript
MaxTitlePad == 61      \* longest run of letters a drawn title starts with
MaxTitleTail == 3      \* longest enumerated tail of a drawn title

\* ------------------------------------------------------ program constants
INTERVAL == 50

\* ------------------------------------------------------------ value space
Sessions == {"u1"}                       \* conversation ids handed in by the host
NoId == "NoId"                           \* conversation_id missing from the payload
DefaultId == "default"                   \* the `|| 'default'` fallback key
OtherSessions == {"u2"}                   \* a second conversation in the same project
HostIds == Sessions \cup OtherSessions
Keys == HostIds \cup {DefaultId}
Dates == {"2026-01-01"}
Times == {"09:00"}
RegistryDates == {"2026-01-01", "2026-01-02"}   \* the days start triggers arrive on
NoTime == ""                             \* a "**Started:**" / "**Last Updated:**" line that is gone
NoVal == -1                              \* a number missing from the payload
MsgInputs == {NoVal, 3}
PctInputs == {NoVal, 80}

RandomId == "r0"                         \* what crypto.randomUUID() returned
Procs == {1, 2}                          \* count-tool processes that may overlap

\* An optional value (a file that may be absent): <<>> or <<content>>.
None == <<>>
Some(x) == <<x>>

\* the files ensureWorkspaceSetup writes, in the order it writes them
SetupOrder == <<"sessionsKeep", "memoryKeep", "memoryFile", "soulFile", "userFile">>
SetupTargets == {SetupOrder[i] : i \in 1..Len(SetupOrder)}
KeepTargets == {"sessionsKeep", "memoryKeep"}

\* ------------------------------------------------- String(n) / parseInt
RECURSIVE ToStr(_)
ToStr(n) == IF n < 10 THEN <<n>> ELSE ToStr(n \div 10) \o <<n % 10>>

RECURSIVE ParseDigits(_, _)
ParseDigits(s, acc) ==
  IF s = <<>> THEN acc ELSE ParseDigits(Tail(s), acc * 10 + Head(s))

\* parseInt(text, 10) || 0 : no leading digit gives NaN, which || turns into 0
ParseIntOr0(s) == IF s = <<>> THEN 0 ELSE ParseDigits(s, 0)

\* getToolCount / the read in count-tool: an absent or unreadable file is 0
ReadCount(file, readFails) ==
  IF file = None \/ readFails THEN 0 ELSE ParseIntOr0(file[1])

\* --------------------------------------------------------- session files
\* titles and slugs are sequences of one-character strings
PlaceholderTitle ==
  <<"[","S","e","t"," ","t","i","t","l","e"," ","o","n","c","e"," ","t","a","s","k"," ","i","s"," ","c","l","e","a","r","]">>
LegacyPlaceholderTitle ==
  <<"[","A","d","d"," ","m","e","a","n","i","n","g","f","u","l"," ","t","i","t","l","e"," ","h","e","r","e","]">>
SESSION_TITLE_PLACEHOLDERS == {PlaceholderTitle, LegacyPlaceholderTitle}
NoTitle == <<>>                         \* metadata.title = null (or '' after trim)
DefaultSlug == <<"s","e","s","s","i","o","n">>

\* the characters of a date string
DateText ==
  ("2026-01-01" :> <<"2","0","2","6","-","0","1","-","0","1">>)
  @@ ("2026-01-02" :> <<"2","0","2","6","-","0","1","-","0","2">>)

buildSessionFilename(date, sessionId) ==
  [date |-> date, titleSlug |-> DefaultSlug, uuid |-> sessionId]

\* A record's content: `heading` says whether a "# Session:" line exists and
\* `title` is the text after the colon on that line; `log` holds the lines
\* carrying a **HH:MM** stamp; `checked` is the presence of "- [x]";
\* `focusPlaceholder` the presence of the Current State placeholder sentence.
createSessionTemplate(sessionId, date, time) ==
  [heading |-> TRUE, title |-> <<" ">> \o PlaceholderTitle, date |-> date, started |-> time,
   lastUpdated |-> time, sessionId |-> sessionId,
   focusPlaceholder |-> TRUE, checked |-> FALSE,
   log |-> << [time |-> time, kind |-> "started", n |-> 0] >>]

\* mutation: the uuid of the file name is not compared
findSession_AnyUuid(files, uuid) == DOMAIN files

\* the file names findSession can return for a uuid (readdir order is arbitrary)
findSession(files, uuid) ==
  {fn \in DOMAIN files : uuid \in HostIds /\ fn.uuid = uuid}

\* mutation: the completed-item marker is not looked at
isTemplate_IgnoreChecked(content) ==
  IF Len(content.log) > 1 THEN FALSE
  ELSE IF /\ content.started # NoTime /\ content.lastUpdated # NoTime
          /\ content.started # content.lastUpdated THEN FALSE
  ELSE content.focusPlaceholder

isTemplate(content) ==
  IF Len(content.log) > 1 THEN FALSE
  ELSE IF content.checked THEN FALSE
  ELSE IF /\ content.started # NoTime /\ content.lastUpdated # NoTime
          /\ content.started # content.lastUpdated THEN FALSE
  ELSE content.focusPlaceholder

\* mutation: the log line does not carry the flag's message count
CompactionLogEntry_NoCount(time, n) == [time |-> time, kind |-> "compacted", n |-> 0]

CompactionLogEntry(time, n) == [time |-> time, kind |-> "compacted", n |-> n]

\* appendToSession on an existing file
appendToSession(files, fn, entry) ==
  [files EXCEPT ![fn] = [@ EXCEPT !.log = Append(@, entry)]]

RemoveFile(files, fn) == [f \in (DOMAIN files) \ {fn} |-> files[f]]
AddFile(files, fn, content) ==
  [f \in (DOMAIN files) \cup {fn} |-> IF f = fn THEN content ELSE files[f]]

\* ----------------------------------------------------------------- state
VARIABLES
  toolCountFile,      \* config/tool-count-<id>           : Keys -> optional digits
  lastNotifiedFile,   \* config/cursor-last-notified-<id> : Keys -> optional digits
  flagFile,           \* config/cursor-compacted-<id>     : Keys -> optional FlagData
  sessionFiles,       \* sessions/<date>-<slug>-<uuid>.tmp : filename -> content
  out,                \* stdout of the last hook invocation, one entry per line
  call,               \* the last hook invocation and its inputs
  sinceReset,         \* count-tool invocations since start / last counter reset
  exitCode,           \* exit status of the last hook process
  workspaceFiles,     \* the bootstrap targets : SetupTargets -> optional text
  inflight,           \* count-tool processes between their read and their write
  toolOffsetFile,     \* config/cursor-tool-offset-<id>  : Keys -> optional digits
  transcriptFile      \* [Tool call] markers in the .txt transcript : Keys -> Nat

vars == <<toolCountFile, lastNotifiedFile, flagFile, sessionFiles, out, call,
          sinceReset, exitCode, workspaceFiles, inflight, toolOffsetFile,
          transcriptFile>>

\* the state of the legacy transcript-scanning variant and of running processes
legacyVars == <<toolOffsetFile, transcriptFile>>

EmptyObj == [kind |-> "empty", n |-> 0]
CompactMsg(n) == [kind |-> "compact", n |-> n]
FirstUpdateMsg == [kind |-> "first", n |-> 0]
ProgressMsg(n) == [kind |-> "progress", n |-> n]

Call(hook, cid, loop, tp, fault, cleanupFails) ==
  [hook |-> hook, cid |-> cid, loop |-> loop, tp |-> tp, fault |-> fault,
   cleanupFails |-> cleanupFails]

\* nothing has run: no exit status, no bootstrap file, no process, no transcript
InitRest ==
  /\ exitCode = NoVal
  /\ workspaceFiles = [t \in SetupTargets |-> None]
  /\ inflight = [p \in Procs |-> None]
  /\ toolOffsetFile = [k \in Keys |-> None]
  /\ transcriptFile = [k \in Keys |-> 0]

Init ==
  /\ toolCountFile = [k \in Keys |-> None]
  /\ lastNotifiedFile = [k \in Keys |-> None]
  /\ flagFile = [k \in Keys |-> None]
  /\ sessionFiles = [f \in {} |-> None]
  /\ out = <<>>
  /\ call = Call("none", NoId, 0, FALSE, "none", FALSE)
  /\ sinceReset = [k \in Keys |-> 0]
  /\ InitRest

\* ------------------------------------------------------------ exit status
\* mutation: an error that reaches the top-level handler ends the process with 1
ExitStatus_FailOnThrow(thrown, caught) == IF thrown THEN 1 ELSE 0

\* process.exit(0) at the end of every hook body and in every top-level catch;
\* an error no handler catches would end the process with status 1
ExitStatus(thrown, caught) == IF thrown /\ ~caught THEN 1 ELSE 0

\* ------------------------------------------------- count-tool (preToolUse)
\* mutation: the incremented value is not the one written
CountToolWrite_NoIncrement(count) == ToStr(count)

\* line 33: the text written back to the counter file
CountToolWrite(count) == ToStr(count + 1)

\* what can go wrong in a run on this input: stdin that is not JSON (no field
\* is read then), or one of mkdir / readFile / writeFile throwing
CountToolFaults(cid, tp) ==
  {"none"}
  \cup (IF cid = NoId /\ ~tp THEN {"stdin"} ELSE {})
  \cup (IF cid # NoId /\ tp THEN {"mkdir", "write"} ELSE {})
  \cup (IF cid # NoId /\ tp /\ toolCountFile[cid] # None THEN {"read"} ELSE {})

CountTool(cid, tp, fault) ==
  /\ call' = Call("count", cid, 0, tp, fault, FALSE)
  /\ out' = <<>>
  /\ fault \in CountToolFaults(cid, tp)
  /\ IF ~tp \/ cid = NoId \/ fault \in {"stdin", "mkdir", "write"}
       THEN UNCHANGED <<toolCountFile, sinceReset>>
       ELSE LET count == ReadCount(toolCountFile[cid], fault = "read") IN
            /\ toolCountFile' = [toolCountFile EXCEPT ![cid] = Some(CountToolWrite(count))]
            \* a read that failed restarts the stored count at 1
            /\ sinceReset' = [sinceReset EXCEPT ![cid] = IF fault = "read" THEN 1 ELSE @ + 1]
  /\ exitCode' = ExitStatus(fault \in {"stdin", "mkdir", "write"}, TRUE)
  /\ UNCHANGED <<lastNotifiedFile, flagFile, sessionFiles>>
  /\ UNCHANGED <<workspaceFiles, inflight, legacyVars>>

\* ------------------------------------------------------------ pre-compact
\* mutation: a missing number is stored as it came
OrZero_Keep(v) == v

\* `data.context_usage_percent || 0`, `data.messages_to_compact || 0`
OrZero(v) == IF v = NoVal THEN 0 ELSE v

\* what can go wrong: stdin that is not JSON (readStdinJson gives {}), or the
\* write of a .keep file or of the flag throwing
PreCompactFaults(cid, tp, pct, msgs) ==
  {"none"}
  \cup (IF cid = NoId /\ ~tp /\ pct = NoVal /\ msgs = NoVal THEN {"stdin"} ELSE {})
  \cup (IF tp THEN {"keep", "flagWrite"} ELSE {})

PreCompact(cid, tp, time, pct, msgs, fault) ==
  LET sessionId == IF cid = NoId THEN DefaultId ELSE cid IN
  /\ call' = Call("precompact", cid, 0, tp, fault, FALSE)
  /\ out' = <<EmptyObj>>
  /\ fault \in PreCompactFaults(cid, tp, pct, msgs)
  /\ exitCode' = ExitStatus(fault \in {"keep", "flagWrite"}, TRUE)
  /\ UNCHANGED <<workspaceFiles, inflight, legacyVars>>
  /\ IF ~tp \/ fault \in {"keep", "flagWrite"}
       THEN UNCHANGED flagFile
       ELSE flagFile' = [flagFile EXCEPT ![sessionId] =
              Some([timestamp |-> time,
                    context_usage_percent |-> OrZero(pct),
                    messages_to_compact |-> OrZero(msgs)])]
  /\ UNCHANGED <<toolCountFile, lastNotifiedFile, sessionFiles, sinceReset>>

\* ------------------------------------------- stop hook (periodic check)
NoSession == [date |-> "", titleSlug |-> <<>>, uuid |-> ""]

\* mutation: the lookup never finds the record
FoundSessions_Null(files, uuid) == {NoSession}

\* what `await findSession(...)` may evaluate to: one matching file, or null
FoundSessions(files, uuid) ==
  IF findSession(files, uuid) = {} THEN {NoSession} ELSE findSession(files, uuid)

\* mutation: the slug of the record is not looked at
MilestoneMessage_IgnoreSlug(toolCallCount, session) ==
  IF toolCallCount \div INTERVAL = 1 THEN FirstUpdateMsg ELSE ProgressMsg(toolCallCount)

\* lines 302-312: the guidance text of a milestone that fires
MilestoneMessage(toolCallCount, session) ==
  LET needsRename == session.titleSlug = DefaultSlug
      milestoneNum == toolCallCount \div INTERVAL
  IN IF milestoneNum = 1 /\ needsRename
       THEN FirstUpdateMsg
       ELSE ProgressMsg(toolCallCount)

\* mutation: store the boundary the next milestone is due at
NotifiedValue_NextBoundary(toolCallCount) ==
  ToStr(((toolCallCount \div INTERVAL) + 1) * INTERVAL)

\* mutation: store the milestone boundary below the count
NotifiedValue_Boundary(toolCallCount) ==
  ToStr((toolCallCount \div INTERVAL) * INTERVAL)

\* mutation: store the count's offset into its interval
NotifiedValue_Remainder(toolCallCount) == ToStr(toolCallCount % INTERVAL)

\* the value written to cursor-last-notified when a milestone fires
NotifiedValue(toolCallCount) == ToStr(toolCallCount)

\* mutation: the boundary itself does not fire
ThresholdReached_Strict(toolCallCount, lastNotifiedCallCount) ==
  toolCallCount > lastNotifiedCallCount + INTERVAL

ThresholdReached(toolCallCount, lastNotifiedCallCount) ==
  ~(toolCallCount < lastNotifiedCallCount + INTERVAL)

ReadLastNotified(lfile) == IF lfile = None THEN 0 ELSE ParseIntOr0(lfile[1])

\* mutation: the count is stored before the record is looked up
MilestoneEval_StoreUnfound(cfile, lfile, session, fault) ==
  LET toolCallCount == ReadCount(cfile, fault = "counterRead")
      lastNotifiedCallCount == ReadLastNotified(lfile)
  IN IF ~ThresholdReached(toolCallCount, lastNotifiedCallCount)
       THEN [ln |-> lfile, out |-> <<EmptyObj>>]
     ELSE IF session = NoSession
       THEN [ln |-> Some(NotifiedValue(toolCallCount)), out |-> <<EmptyObj>>]
     ELSE [ln |-> Some(NotifiedValue(toolCallCount)),
           out |-> <<MilestoneMessage(toolCallCount, session)>>]

\* Lines 278-317: the milestone evaluation on the given file contents.
\* Result: the new cursor-last-notified file and the lines printed.
MilestoneEval(cfile, lfile, session, fault) ==
  LET toolCallCount == ReadCount(cfile, fault = "counterRead")
      lastNotifiedCallCount == ReadLastNotified(lfile)
  IN IF lfile # None /\ fault = "lnRead"
       THEN [ln |-> lfile, out |-> <<EmptyObj>>]            \* thrown to main().catch
     ELSE IF ~ThresholdReached(toolCallCount, lastNotifiedCallCount)
       THEN [ln |-> lfile, out |-> <<EmptyObj>>]
     ELSE IF session = NoSession
       THEN [ln |-> lfile, out |-> <<EmptyObj>>]
     ELSE IF fault = "lnStore"
       THEN [ln |-> lfile, out |-> <<EmptyObj>>]            \* thrown to main().catch
     ELSE [ln |-> Some(NotifiedValue(toolCallCount)),
           out |-> <<MilestoneMessage(toolCallCount, session)>>]

\* the file operations of the milestone evaluation that this run executes
MilestoneFaults(cfile, lfile, session) ==
  {"none"}
  \cup (IF cfile # None THEN {"counterRead"} ELSE {})
  \cup (IF lfile # None THEN {"lnRead"} ELSE {})
  \cup (IF /\ ThresholdReached(ReadCount(cfile, FALSE), ReadLastNotified(lfile))
           /\ session # NoSession
          THEN {"lnStore"} ELSE {})

\* the file operations of the compaction branch that this run executes
CompactionFaults(session) ==
  {"none", "flagRead", "flagDelete", "counterWrite", "lnReset"}
  \cup (IF session # NoSession THEN {"append"} ELSE {})

\* what the periodic check prints after the compaction branch ran to its end
CompactionOutput(flagData) == <<CompactMsg(flagData.messages_to_compact)>>

\* mutation: the repeat-cycle counter is ignored
SkipCheck_NoLoop(loopCount, hasTranscript) == ~hasTranscript

\* skip guard, lines 229-232
SkipCheck(loopCount, hasTranscript) == loopCount > 0 \/ ~hasTranscript

\* mutation: the flag is read but not deleted
DeleteFlag_Noop(flagv) == flagv

\* line 243: the flag file after `await Bun.file(flagFile).delete()`
DeleteFlag(flagv) == None

\* mutation: the catch block only logs
CatchCleanup_Keep(flagv) == flagv

\* lines 272-274: the flag file after the catch block's exists/delete
CatchCleanup(flagv) == None

\* mutation: the counter restarts at one
ResetCount_One == ToStr(1)

\* lines 246 and 253: the texts the compaction branch writes
ResetCount == ToStr(0)
ResetNotified == ToStr(0)

\* the catch block (lines 267-275) with the files as the throw left them,
\* then the fall-through into the milestone evaluation
AfterCatch(sessionId, session, flagv, cfile, lfile) ==
  LET r == MilestoneEval(cfile, lfile, session, "none") IN
  /\ flagFile' = [flagFile EXCEPT ![sessionId] = CatchCleanup(flagv)]
  /\ toolCountFile' = [toolCountFile EXCEPT ![sessionId] = cfile]
  /\ lastNotifiedFile' = [lastNotifiedFile EXCEPT ![sessionId] = r.ln]
  /\ out' = r.out
  /\ UNCHANGED sessionFiles

\* the runs in which an error reaches main().catch (lines 320-327)
StopThrown(loop, tp, flag, lfile, fault, cleanupFails) ==
  IF SkipCheck(loop, tp) THEN FALSE
  ELSE IF flag # None THEN cleanupFails
  ELSE fault = "lnStore" \/ (fault = "lnRead" /\ lfile # None)

StopHook(cid, loop, tp, time, fault, cleanupFails, session) ==
  LET sessionId == IF cid = NoId THEN DefaultId ELSE cid
      cfile == toolCountFile[sessionId]
      lfile == lastNotifiedFile[sessionId]
      flag == flagFile[sessionId]
  IN
  /\ call' = Call("stop", cid, loop, tp, fault, cleanupFails)
  /\ exitCode' = ExitStatus(StopThrown(loop, tp, flag, lfile, fault, cleanupFails), TRUE)
  /\ UNCHANGED <<workspaceFiles, inflight, legacyVars>>
  /\ IF SkipCheck(loop, tp) THEN
       /\ fault \in {"none", "stdin"} /\ ~cleanupFails /\ session = NoSession
       /\ fault = "stdin" => cid = NoId /\ loop = 0
       /\ out' = <<EmptyObj>>
       /\ UNCHANGED <<toolCountFile, lastNotifiedFile, flagFile, sessionFiles, sinceReset>>
     ELSE IF flag # None THEN
       \* compaction branch, lines 240-276
       /\ session \in FoundSessions(sessionFiles, sessionId)
       /\ fault \in CompactionFaults(session)
       /\ cleanupFails => fault \in {"flagRead", "flagDelete"}
       /\ CASE fault \in {"flagRead", "flagDelete"} ->
                 \* thrown with the flag still on disk
                 /\ IF cleanupFails
                      THEN \* the delete in the catch block throws too: main().catch
                           /\ out' = <<EmptyObj>>
                           /\ UNCHANGED <<toolCountFile, lastNotifiedFile, flagFile,
                                          sessionFiles>>
                      ELSE AfterCatch(sessionId, session, flag, cfile, lfile)
                 /\ UNCHANGED sinceReset
            [] fault = "counterWrite" ->
                 /\ AfterCatch(sessionId, session, DeleteFlag(flag), cfile, lfile)
                 /\ UNCHANGED sinceReset
            [] fault = "lnReset" ->
                 /\ AfterCatch(sessionId, session, DeleteFlag(flag), Some(ResetCount), lfile)
                 /\ sinceReset' = [sinceReset EXCEPT ![sessionId] = 0]
            [] fault \in {"none", "append"} ->
                 /\ flagFile' = [flagFile EXCEPT ![sessionId] = DeleteFlag(flag)]
                 /\ toolCountFile' = [toolCountFile EXCEPT ![sessionId] = Some(ResetCount)]
                 /\ lastNotifiedFile' =
                      [lastNotifiedFile EXCEPT ![sessionId] = Some(ResetNotified)]
                 /\ sessionFiles' =
                      IF session # NoSession /\ fault = "none"
                        THEN appendToSession(sessionFiles, session,
                               CompactionLogEntry(time, flag[1].messages_to_compact))
                        ELSE sessionFiles
                 /\ out' = CompactionOutput(flag[1])
                 /\ sinceReset' = [sinceReset EXCEPT ![sessionId] = 0]
     ELSE
       \* milestone evaluation, lines 278-317
       /\ ~cleanupFails
       /\ session \in FoundSessions(sessionFiles, sessionId)
       /\ fault \in MilestoneFaults(cfile, lfile, session)
       /\ LET r == MilestoneEval(cfile, lfile, session, fault) IN
          /\ lastNotifiedFile' = [lastNotifiedFile EXCEPT ![sessionId] = r.ln]
          /\ out' = r.out
       /\ UNCHANGED <<toolCountFile, flagFile, sessionFiles, sinceReset>>

\* ------------------------------------------------------------ slugifyTitle
UpperChars == <<"A","B","C","D","E","F","G","H","I","J","K","L","M",
                "N","O","P","Q","R","S","T","U","V","W","X","Y","Z">>
LowerChars == <<"a","b","c","d","e","f","g","h","i","j","k","l","m",
                "n","o","p","q","r","s","t","u","v","w","x","y","z">>
DigitChars == {"0","1","2","3","4","5","6","7","8","9"}
SpaceChars == {" ", "\t", "\n"}
SLUG_MAX == 60

ToLowerChar(c) ==
  IF \E i \in 1..26 : UpperChars[i] = c
    THEN LowerChars[CHOOSE i \in 1..26 : UpperChars[i] = c]
    ELSE c

IsSlugSource(c) ==
  \/ \E i \in 1..26 : LowerChars[i] = c
  \/ c \in DigitChars
  \/ c \in SpaceChars
  \/ c = "-"

RECURSIVE FilterSlugSource(_)
FilterSlugSource(t) ==
  IF t = <<>> THEN <<>>
  ELSE IF IsSlugSource(Head(t)) THEN <<Head(t)>> \o FilterSlugSource(Tail(t))
  ELSE FilterSlugSource(Tail(t))

\* .replace(/\s+/g, '-') : every maximal run of whitespace becomes one dash
RECURSIVE SpacesToDashes(_, _)
SpacesToDashes(t, inRun) ==
  IF t = <<>> THEN <<>>
  ELSE IF Head(t) \in SpaceChars
    THEN (IF inRun THEN <<>> ELSE <<"-">>) \o SpacesToDashes(Tail(t), TRUE)
  ELSE <<Head(t)>> \o SpacesToDashes(Tail(t), FALSE)

\* .replace(/-+/g, '-')
RECURSIVE CollapseDashes(_, _)
CollapseDashes(t, inRun) ==
  IF t = <<>> THEN <<>>
  ELSE IF Head(t) = "-"
    THEN (IF inRun THEN <<>> ELSE <<"-">>) \o CollapseDashes(Tail(t), TRUE)
  ELSE <<Head(t)>> \o CollapseDashes(Tail(t), FALSE)

\* .replace(/^-|-$/g, '') : one leading and one trailing dash
TrimDashes(t) ==
  LET a == IF t # <<>> /\ Head(t) = "-" THEN Tail(t) ELSE t
  IN IF a # <<>> /\ a[Len(a)] = "-" THEN SubSeq(a, 1, Len(a) - 1) ELSE a

slugifyTitle(title) ==
  LET lowered == [i \in 1..Len(title) |-> ToLowerChar(title[i])]
      kept == FilterSlugSource(lowered)
      dashed == SpacesToDashes(kept, FALSE)
      collapsed == CollapseDashes(dashed, FALSE)
      trimmed == TrimDashes(collapsed)
  IN SubSeq(trimmed, 1, IF Len(trimmed) < SLUG_MAX THEN Len(trimmed) ELSE SLUG_MAX)

\* .trim() of the captured title
RECURSIVE TrimLeft(_)
TrimLeft(t) == IF t # <<>> /\ Head(t) \in SpaceChars THEN TrimLeft(Tail(t)) ELSE t
RECURSIVE TrimRight(_)
TrimRight(t) ==
  IF t # <<>> /\ t[Len(t)] \in SpaceChars THEN TrimRight(SubSeq(t, 1, Len(t) - 1)) ELSE t
Trim(t) == TrimRight(TrimLeft(t))

\* the line below the heading in the template: "**Date:** <date>"
DateLine(content) ==
  <<"*","*","D","a","t","e",":","*","*"," ">> \o DateText[content.date]

\* parseSessionMetadata(content).title: /^#\s+Session:\s*(.+)$/m, then trim().
\* \s* also runs over the line break, so when nothing but whitespace follows
\* the colon the capture is the next non-blank line.
parseTitle(content) ==
  IF ~content.heading THEN NoTitle
  ELSE IF Trim(content.title) = <<>> THEN Trim(DateLine(content))
  ELSE Trim(content.title)

\* the file name renameSessionFromTitle asks fs.rename for; NoSession for `null`
renameTarget(session, content) ==
  LET title == parseTitle(content)
      slug == slugifyTitle(title)
  IN IF title = NoTitle \/ title \in SESSION_TITLE_PLACEHOLDERS THEN NoSession
     ELSE IF slug = <<>> \/ slug = session.titleSlug THEN NoSession
     ELSE [date |-> session.date, titleSlug |-> slug, uuid |-> session.uuid]

\* fs.rename(old, new): the content moves to the new name, replacing a file
\* that already has that name
renameFile(files, old, new) == AddFile(RemoveFile(files, old), new, files[old])

\* renameSessionFromTitle: the directory afterwards and the value returned
\* (NoSession for `null`); renameFails is fs.rename throwing
renameSessionFromTitle(files, session, content, renameFails) ==
  LET target == renameTarget(session, content) IN
  IF target = NoSession \/ renameFails
    THEN [files |-> files, result |-> NoSession]
    ELSE [files |-> renameFile(files, session, target), result |-> target]

\* deleteSession: a failing delete is swallowed and the file stays
deleteSession(files, fn, deleteFails) ==
  IF deleteFails THEN files ELSE RemoveFile(files, fn)

\* ------------------------------------------------- ensureWorkspaceSetup
\* the text each target is written with
StarterText ==
  [t \in SetupTargets |->
     CASE t \in KeepTargets -> ""
       [] t = "memoryFile" -> "MEMORY_TEMPLATE"
       [] t = "soulFile" -> "SOUL_TEMPLATE"
       [] t = "userFile" -> "USER_TEMPLATE"]

WorkspacePaths == [memoryFile |-> "memory/MEMORY.md", soulFile |-> "soul/SOUL.md",
                   userFile |-> "user/USER.md"]
NoPaths == [memoryFile |-> "", soulFile |-> "", userFile |-> ""]   \* nothing returned: thrown

\* mutation: a starter file is written whether or not it exists
WritesTarget_Always(files, t) == TRUE

\* lines 108-120: a .keep file is always written, a starter file only if missing
WritesTarget(files, t) == t \in KeepTargets \/ files[t] = None

\* the writes from target i on; a write that throws ends the function there
RECURSIVE SetupFrom(_, _, _)
SetupFrom(files, i, failAt) ==
  IF i > Len(SetupOrder) THEN [files |-> files, paths |-> WorkspacePaths]
  ELSE LET t == SetupOrder[i] IN
       IF ~WritesTarget(files, t) THEN SetupFrom(files, i + 1, failAt)
       ELSE IF failAt = t THEN [files |-> files, paths |-> NoPaths]
       ELSE SetupFrom([files EXCEPT ![t] = Some(StarterText[t])], i + 1, failAt)

\* the files afterwards and the value the caller gets
ensureWorkspaceSetup(files, failAt) == SetupFrom(files, 1, failAt)

\* ------------------------------------------------------------ session start
ContextObj == [kind |-> "context", n |-> 0]
EmptyContextObj == [kind |-> "context-empty", n |-> 0]    \* {additional_context: ''}

\* mutation: the template is written whether or not the file exists
initSession_Overwrite(files, sessionId, date, time) ==
  AddFile(files, buildSessionFilename(date, sessionId),
          createSessionTemplate(sessionId, date, time))

\* lines 462-474: the isNew field of initSession's result
initSessionIsNew(files, sessionId, date) ==
  buildSessionFilename(date, sessionId) \notin DOMAIN files

initSession(files, sessionId, date, time) ==
  LET sessionFile == buildSessionFilename(date, sessionId) IN
  IF sessionFile \in DOMAIN files
    THEN files
    ELSE AddFile(files, sessionFile, createSessionTemplate(sessionId, date, time))

\* what can go wrong: stdin that is not JSON (no id is read: a random one is
\* used), a write of ensureWorkspaceSetup throwing, writeSession failing, or
\* the read of the memory file throwing
StartFaults(files, sessions, sid, date) ==
  {"none", "memoryRead"}
  \cup (IF sid = RandomId THEN {"stdin"} ELSE {})
  \cup {t \in SetupTargets : WritesTarget(files, t)}
  \cup (IF buildSessionFilename(date, sid) \notin DOMAIN sessions THEN {"init"} ELSE {})

SessionStart(sid, date, time, fault) ==
  LET setup == ensureWorkspaceSetup(workspaceFiles, fault) IN
  /\ call' = Call("start", sid, 0, FALSE, fault, FALSE)
  /\ fault \in StartFaults(workspaceFiles, sessionFiles, sid, date)
  /\ workspaceFiles' = setup.files
  /\ IF setup.paths = NoPaths
       THEN \* thrown to main().catch, lines 232-239
            /\ UNCHANGED sessionFiles
            /\ out' = <<EmptyContextObj>>
       ELSE /\ sessionFiles' = IF fault = "init" THEN sessionFiles     \* writeSession gave false
                                ELSE initSession(sessionFiles, sid, date, time)
            /\ out' = <<ContextObj>>
  /\ exitCode' = ExitStatus(setup.paths = NoPaths, TRUE)
  /\ UNCHANGED <<toolCountFile, lastNotifiedFile, flagFile, sinceReset>>
  /\ UNCHANGED <<inflight, legacyVars>>

\* ------------------------------------------------ the agent's edits
\* The agent rewrites a record between hooks: sets or blanks the title text,
\* removes the heading, ticks an item, replaces the Current State placeholder,
\* changes Last Updated, removes the Started line, adds a stamped log line.
EditKinds == {"title", "noheading", "check", "focus", "touch", "nostart", "log"}
EditTimes == {"10:30"}

BlankTitle == <<" ">>
PunctTitle == <<" ","?","!">>
SameSlugTitle == <<" ","S","e","s","s","i","o","n">>
HyphenTitle == <<" ","F","i","x"," "," ","l","o","g","-","i","n","!"," ">>
EditTitles == {<<" ">> \o PlaceholderTitle, BlankTitle, PunctTitle, SameSlugTitle, HyphenTitle}

EditContent(content, kind, title, time) ==
  CASE kind = "title" -> [content EXCEPT !.heading = TRUE, !.title = title]
    [] kind = "noheading" -> [content EXCEPT !.heading = FALSE, !.title = <<>>]
    [] kind = "check" -> [content EXCEPT !.checked = TRUE]
    [] kind = "focus" -> [content EXCEPT !.focusPlaceholder = FALSE]
    [] kind = "touch" -> [content EXCEPT !.lastUpdated = time]
    [] kind = "nostart" -> [content EXCEPT !.started = NoTime]
    [] kind = "log" ->
         [content EXCEPT !.log = Append(@, [time |-> time, kind |-> "note", n |-> 0])]

AgentEdit(fn, kind, title, time) ==
  /\ call' = Call("edit", fn.uuid, 0, TRUE, "none", FALSE)
  /\ out' = <<>>
  /\ sessionFiles' = [sessionFiles EXCEPT ![fn] = EditContent(@, kind, title, time)]
  /\ UNCHANGED <<toolCountFile, lastNotifiedFile, flagFile, sinceReset>>
  /\ UNCHANGED <<exitCode, workspaceFiles, inflight, legacyVars>>

\* -------------------------------------------------------------- session end
\* mutation: the rename is tried whatever the current slug
NeedsRename_Always(session) == TRUE

\* line 58: the slug is still the default
NeedsRename(session) == session.titleSlug = DefaultSlug

\* the file operations of the end hook that this run executes
EndFaults(session, content) ==
  {"none", "read"}
  \cup (IF isTemplate(content) THEN {"delete"} ELSE {})
  \cup (IF ~isTemplate(content) /\ NeedsRename(session)
            /\ renameTarget(session, content) # NoSession
          THEN {"rename"} ELSE {})

SessionEnd(sid, hasDir, session, fault) ==
  LET sessionId == IF sid = NoId THEN DefaultId ELSE sid IN
  /\ call' = Call("end", sid, 0, hasDir, fault, FALSE)
  /\ out' = <<>>
  /\ exitCode' = ExitStatus(FALSE, TRUE)
  /\ UNCHANGED <<workspaceFiles, inflight, legacyVars>>
  /\ IF ~hasDir THEN
       /\ session = NoSession /\ fault \in {"none", "stdin"}
       /\ fault = "stdin" => sid = NoId
       /\ UNCHANGED sessionFiles
     ELSE
       /\ session \in FoundSessions(sessionFiles, sessionId)
       /\ IF session = NoSession THEN fault = "none" /\ UNCHANGED sessionFiles
          ELSE LET content == sessionFiles[session] IN
               /\ fault \in EndFaults(session, content)
               /\ IF fault = "read" THEN UNCHANGED sessionFiles   \* readSession gave null
                  ELSE IF isTemplate(content)
                    THEN sessionFiles' = deleteSession(sessionFiles, session, fault = "delete")
                  ELSE IF NeedsRename(session)
                    THEN sessionFiles' =
                           renameSessionFromTitle(sessionFiles, session, content,
                                                  fault = "rename").files
                  ELSE UNCHANGED sessionFiles
  /\ UNCHANGED <<toolCountFile, lastNotifiedFile, flagFile, sinceReset>>

\* ------------------------------------------------------------ specifications
Ids == Sessions \cup {NoId}
StopFaults == {"none", "flagRead", "flagDelete", "counterWrite", "lnReset",
               "append", "counterRead", "lnRead", "lnStore"}
SessionChoices == DOMAIN sessionFiles \cup {NoSession}

\* pre-compaction is no longer triggered once a record of the session is full
LogRoom(cid) ==
  \A fn \in DOMAIN sessionFiles : fn.uuid = cid => Len(sessionFiles[fn].log) < MaxLog

\* count-tool is no longer invoked once the stored count has reached the cap
CountRoom(cid, cap) ==
  cid \in Keys => ReadCount(toolCountFile[cid], FALSE) < cap

NextWith(ids, pcts, faults, cleanups, cap) ==
  \/ \E cid \in ids, tp \in BOOLEAN : CountRoom(cid, cap) /\ CountTool(cid, tp, "none")
  \/ \E cid \in ids, tp \in BOOLEAN, time \in Times, pct \in pcts, msgs \in MsgInputs :
       LogRoom(cid) /\ PreCompact(cid, tp, time, pct, msgs, "none")
  \/ \E cid \in ids, loop \in {0, 1}, tp \in BOOLEAN, time \in Times,
        fault \in faults, cleanupFails \in cleanups, session \in SessionChoices :
       StopHook(cid, loop, tp, time, fault, cleanupFails, session)
  \/ \E sid \in Sessions, date \in Dates, time \in Times :
       SessionStart(sid, date, time, "none")
  \/ \E sid \in ids, hasDir \in BOOLEAN, session \in SessionChoices :
       SessionEnd(sid, hasDir, session, "none")

\* every file operation succeeds; every payload carries its conversation id
Next == NextWith(Sessions, {80}, {"none"}, {FALSE}, MaxCount)
Spec == Init /\ [][Next]_vars

\* one file operation of the periodic check may fail
NextFault == NextWith(Sessions, {80}, StopFaults, BOOLEAN, MaxFaultCount)
SpecFault == Init /\ [][NextFault]_vars

\* The session registry on its own: start triggers, the agent's edits and end
\* triggers (one file operation of the end hook may fail).
EndFaultChoices == {"none", "read", "delete", "rename"}

\* a start trigger creates no record beyond MaxRecords
RecordRoom(sid, date) ==
  \/ buildSessionFilename(date, sid) \in DOMAIN sessionFiles
  \/ Cardinality(DOMAIN sessionFiles) < MaxRecords

\* the agent adds no log line to a record that holds MaxLog of them
EditRoom(fn, kind) == kind = "log" => Len(sessionFiles[fn].log) < MaxLog

NextRegistryWith(dates, titles, kinds, times) ==
  \/ \E sid \in Sessions, date \in dates, time \in Times :
       RecordRoom(sid, date) /\ SessionStart(sid, date, time, "none")
  \/ \E fn \in DOMAIN sessionFiles, kind \in kinds, title \in titles, time \in times :
       EditRoom(fn, kind) /\ AgentEdit(fn, kind, title, time)
  \/ \E sid \in Sessions, hasDir \in BOOLEAN, session \in SessionChoices,
        fault \in EndFaultChoices :
       SessionEnd(sid, hasDir, session, fault)

\* every title, two days, edits that set the title or tick an item
NextRegistry ==
  NextRegistryWith(RegistryDates, EditTitles, {"title", "noheading", "check"}, EditTimes)
SpecRegistry == Init /\ [][NextRegistry]_vars

\* one day, two titles, every kind of edit
NextTemplate ==
  NextRegistryWith(Dates, {<<" ">> \o PlaceholderTitle, HyphenTitle}, EditKinds, EditTimes)
SpecTemplate == Init /\ [][NextTemplate]_vars

\* ------------------------------------------------- file names as text
\* `${date}-${slug}-${uuid}.tmp` (buildSessionFilename, renameSessionFromTitle)
TmpExt == <<".","t","m","p">>
FilenameText(date, slug, uuid) == date \o <<"-">> \o slug \o <<"-">> \o uuid \o TmpExt

HexChars == DigitChars \cup {"a","b","c","d","e","f"}
LineTerminators == {"\n", "\r"}

\* (\d{4}-\d{2}-\d{2})
MatchesDate(t) ==
  /\ Len(t) = 10
  /\ \A i \in 1..10 : IF i \in {5, 8} THEN t[i] = "-" ELSE t[i] \in DigitChars

\* ([a-f0-9]{8}-[a-f0-9]{4}-[a-f0-9]{4}-[a-f0-9]{4}-[a-f0-9]{12})
MatchesUuid(t) ==
  /\ Len(t) = 36
  /\ \A i \in 1..36 : IF i \in {9, 14, 19, 24} THEN t[i] = "-" ELSE t[i] \in HexChars

\* the positions at which the (.+) group of SESSION_FILENAME_REGEX can end so
\* that the whole of ^(date)-(.+)-(uuid)\.tmp$ matches
SlugEnds(t) ==
  {j \in 12..Len(t) :
     /\ j + 41 = Len(t)
     /\ MatchesDate(SubSeq(t, 1, 10))
     /\ t[11] = "-"
     /\ \A i \in 12..j : t[i] \notin LineTerminators
     /\ t[j + 1] = "-"
     /\ MatchesUuid(SubSeq(t, j + 2, j + 37))
     /\ SubSeq(t, j + 38, Len(t)) = TmpExt}

NoParse == [date |-> <<>>, titleSlug |-> <<>>, uuid |-> <<>>]    \* `null`

\* mutation: the name is cut at its hyphens, the slug being the fourth piece
parseSessionFilename_SplitDash(t) ==
  LET dashes == {i \in 12..Len(t) : t[i] = "-"}
      j == IF dashes = {} THEN Len(t) + 1 ELSE CHOOSE i \in dashes : \A k \in dashes : i <= k
  IN IF Len(t) < 12 THEN NoParse
     ELSE [date |-> SubSeq(t, 1, 10), titleSlug |-> SubSeq(t, 12, j - 1),
           uuid |-> SubSeq(t, j + 1, Len(t) - 4)]

\* parseSessionFilename: the greedy (.+) keeps the longest slug that matches
parseSessionFilename(t) ==
  IF SlugEnds(t) = {} THEN NoParse
  ELSE LET j == CHOOSE i \in SlugEnds(t) : \A k \in SlugEnds(t) : k <= i
       IN [date |-> SubSeq(t, 1, 10), titleSlug |-> SubSeq(t, 12, j),
           uuid |-> SubSeq(t, j + 2, j + 37)]

\* inputs: dates, canonical lowercase UUIDs, and slugs over letters, digits
\* and hyphens, one of them ending in a UUID of its own
Uuid1Text == <<"0","a","1","b","2","c","3","d","-","4","e","5","f","-","6","a","7","b","-","8","c","9","d","-","0","e","1","f","2","a","3","b","4","c","5","d">>
Uuid2Text == <<"f","f","f","f","f","f","f","f","-","0","0","0","0","-","4","0","0","0","-","8","0","0","0","-","1","2","3","4","5","6","7","8","9","a","b","c">>
UuidInputs == {Uuid1Text, Uuid2Text}
DateInputs == {DateText[d] : d \in RegistryDates}
SlugAlphabet == {"a", "7", "-"}
UuidTailSlug == <<"x","-">> \o Uuid2Text
SlugInputs ==
  UNION {[1..n -> SlugAlphabet] : n \in 1..MaxSlugLen} \cup {UuidTailSlug}

\* build and parse applied to one drawn triple
InitFilename ==
  /\ toolCountFile = [k \in Keys |-> None]
  /\ lastNotifiedFile = [k \in Keys |-> None]
  /\ flagFile = [k \in Keys |-> None]
  /\ sessionFiles = [f \in {} |-> None]
  /\ sinceReset = [k \in Keys |-> 0]
  /\ out = <<>>
  /\ InitRest
  /\ call \in [hook : {"input"}, date : DateInputs, slug : SlugInputs, uuid : UuidInputs]

FilenameBuild ==
  /\ call.hook = "input"
  /\ call' = [call EXCEPT !.hook = "build"]
  /\ out' = <<FilenameText(call.date, call.slug, call.uuid)>>
  /\ UNCHANGED <<toolCountFile, lastNotifiedFile, flagFile, sessionFiles, sinceReset>>
  /\ UNCHANGED <<exitCode, workspaceFiles, inflight, legacyVars>>

FilenameParse ==
  /\ call.hook = "build"
  /\ call' = [call EXCEPT !.hook = "parse"]
  /\ out' = Append(out, parseSessionFilename(out[1]))
  /\ UNCHANGED <<toolCountFile, lastNotifiedFile, flagFile, sessionFiles, sinceReset>>
  /\ UNCHANGED <<exitCode, workspaceFiles, inflight, legacyVars>>

NextFilename == FilenameBuild \/ FilenameParse
SpecFilename == InitFilename /\ [][NextFilename]_vars

\* ------------------------------------------- appendToSession with its result
\* mutation: a missing target is created holding the appended text
appendToSessionResult_Create(files, fn, entry, appendFails) ==
  IF appendFails THEN [files |-> files, ok |-> FALSE]
  ELSE IF fn \notin DOMAIN files
    THEN [files |-> AddFile(files, fn,
                      [createSessionTemplate(fn.uuid, fn.date, entry.time)
                         EXCEPT !.log = <<entry>>]),
          ok |-> TRUE]
  ELSE [files |-> appendToSession(files, fn, entry), ok |-> TRUE]

\* appendToSession, lines 348-363: the directory afterwards and the value
\* returned; appendFails is fs.appendFile throwing
appendToSessionResult(files, fn, entry, appendFails) ==
  IF fn \notin DOMAIN files \/ appendFails THEN [files |-> files, ok |-> FALSE]
  ELSE [files |-> appendToSession(files, fn, entry), ok |-> TRUE]

\* the names an append is asked for: the records on disk and today's default
\* names, on disk or not
AppendTargets ==
  DOMAIN sessionFiles \cup {buildSessionFilename(d, sid) : d \in Dates, sid \in Sessions}

AppendEntries == {CompactionLogEntry(t, n) : t \in EditTimes, n \in {0, 3}}

\* a caller appends one entry to one path and gets the result
AppendCall(fn, entry, appendFails) ==
  LET r == appendToSessionResult(sessionFiles, fn, entry, appendFails) IN
  /\ fn \in DOMAIN sessionFiles => Len(sessionFiles[fn].log) < MaxLog + 1
  /\ call' = [hook |-> "append", target |-> fn, entry |-> entry, fault |-> appendFails]
  /\ out' = <<r.ok>>
  /\ sessionFiles' = r.files
  /\ UNCHANGED <<toolCountFile, lastNotifiedFile, flagFile, sinceReset>>
  /\ UNCHANGED <<exitCode, workspaceFiles, inflight, legacyVars>>

NextAppend ==
  \/ NextRegistryWith(Dates, {HyphenTitle}, {"title", "check", "log"}, EditTimes)
  \/ \E fn \in AppendTargets, entry \in AppendEntries, appendFails \in BOOLEAN :
       AppendCall(fn, entry, appendFails)
SpecAppend == Init /\ [][NextAppend]_vars

\* ------------------------------------------- the flag from trigger to check
\* payloads with and without their numbers and their conversation id, every
\* file operation succeeding, a few tool calls
NextFlag == NextWith(Ids, PctInputs, {"none"}, {FALSE}, MaxFlagCount)
SpecFlag == Init /\ [][NextFlag]_vars

\* ------------------------------------------------- the workspace bootstrap
StarterFiles == SetupTargets \ KeepTargets
EditedText == "edited"

\* the agent or the user rewrites a starter file, or removes one of the targets
WorkspaceEdit(t, remove) ==
  /\ workspaceFiles[t] # None
  /\ remove \/ t \in StarterFiles
  /\ workspaceFiles' = [workspaceFiles EXCEPT ![t] = IF remove THEN None ELSE Some(EditedText)]
  /\ call' = [hook |-> "workspaceEdit", target |-> t, fault |-> "none"]
  /\ out' = <<>>
  /\ UNCHANGED <<toolCountFile, lastNotifiedFile, flagFile, sessionFiles, sinceReset>>
  /\ UNCHANGED <<exitCode, inflight, legacyVars>>

\* a caller runs ensureWorkspaceSetup and gets the paths, or the error of the
\* write that failed
SetupCall(failAt) ==
  LET r == ensureWorkspaceSetup(workspaceFiles, failAt) IN
  /\ failAt \in {"none"} \cup {t \in SetupTargets : WritesTarget(workspaceFiles, t)}
  /\ workspaceFiles' = r.files
  /\ call' = [hook |-> "setup", target |-> failAt, fault |-> failAt]
  /\ out' = <<r.paths>>
  /\ UNCHANGED <<toolCountFile, lastNotifiedFile, flagFile, sessionFiles, sinceReset>>
  /\ UNCHANGED <<exitCode, inflight, legacyVars>>

SetupFaults == {"none"} \cup SetupTargets

NextWorkspace ==
  \/ \E failAt \in SetupFaults : SetupCall(failAt)
  \/ \E t \in SetupTargets, remove \in BOOLEAN : WorkspaceEdit(t, remove)
  \/ \E sid \in Sessions, date \in Dates, time \in Times, fault \in SetupFaults :
       SessionStart(sid, date, time, fault)
  \/ \E sid \in Sessions, session \in SessionChoices : SessionEnd(sid, TRUE, session, "none")
SpecWorkspace == Init /\ [][NextWorkspace]_vars

\* ------------------------------------- every hook, any input, one failure
CountToolFaultChoices == {"none", "stdin", "mkdir", "read", "write"}
PreCompactFaultChoices == {"none", "stdin", "keep", "flagWrite"}
StartFaultChoices == {"none", "stdin", "memoryRead", "init"} \cup SetupTargets

\* a payload without its conversation id here is the payload {}: what
\* readStdinJson returns for empty or malformed stdin
BarePayload(cid, tp) == cid = NoId => ~tp

\* a start trigger creates no record beyond MaxHookRecords
HookRecordRoom(sid, date) ==
  \/ buildSessionFilename(date, sid) \in DOMAIN sessionFiles
  \/ Cardinality(DOMAIN sessionFiles) < MaxHookRecords

\* stdin may be empty or not JSON, and one file operation of the run may fail
NextHooks ==
  \/ \E cid \in Ids, tp \in BOOLEAN, fault \in CountToolFaultChoices :
       BarePayload(cid, tp) /\ CountRoom(cid, MaxFaultCount) /\ CountTool(cid, tp, fault)
  \/ \E cid \in Ids, tp \in BOOLEAN, time \in Times, fault \in PreCompactFaultChoices :
       BarePayload(cid, tp) /\ LogRoom(cid)
       /\ IF cid = NoId THEN PreCompact(cid, tp, time, NoVal, NoVal, fault)
                        ELSE PreCompact(cid, tp, time, 80, 3, fault)
  \/ \E cid \in Ids, loop \in {0, 1}, tp \in BOOLEAN, time \in Times,
        fault \in StopFaults \cup {"stdin"}, cleanupFails \in BOOLEAN,
        session \in SessionChoices :
       BarePayload(cid, tp) /\ StopHook(cid, loop, tp, time, fault, cleanupFails, session)
  \/ \E sid \in Sessions \cup {RandomId}, date \in Dates, time \in Times,
        fault \in StartFaultChoices :
       HookRecordRoom(sid, date) /\ SessionStart(sid, date, time, fault)
  \/ \E sid \in Ids, hasDir \in BOOLEAN, session \in SessionChoices,
        fault \in EndFaultChoices \cup {"stdin"} :
       BarePayload(sid, hasDir) /\ SessionEnd(sid, hasDir, session, fault)
SpecHooks == Init /\ [][NextHooks]_vars

\* ------------------------------------------------------------ listSessions
NowDay == 10                              \* Date.now(), in days
DEFAULT_LIMIT == 50                       \* `limit = 50`
NoExclude == <<>>                         \* options.exclude missing
NoDate == <<>>                            \* options.date missing

FixSlug == <<"f","i","x">>
NotesName == <<"n","o","t","e","s",".","t","m","p">>
ReadmeName == <<"R","E","A","D","M","E",".","m","d">>

EndsWithTmp(name) ==
  Len(name) >= Len(TmpExt) /\ SubSeq(name, Len(name) - Len(TmpExt) + 1, Len(name)) = TmpExt

UsedContent ==
  EditContent(createSessionTemplate("u1", "2026-01-01", "09:00"), "check", NoTitle, "10:30")
TitledContent ==
  EditContent(createSessionTemplate("u1", "2026-01-01", "09:00"), "title", HyphenTitle, "10:30")

\* one directory entry: its name, its mtime in days, its content, whether its
\* text can be read, and whether fs.stat on it throws (removed after readdir)
DirEntry(name, mtime, content, readable, statFails) ==
  [name |-> name, mtime |-> mtime, content |-> content, readable |-> readable,
   statFails |-> statFails]

Day1 == DateText["2026-01-01"]
Day2 == DateText["2026-01-02"]
ListEntryInputs ==
  LET tmpl == createSessionTemplate("u1", "2026-01-01", "09:00") IN
  { DirEntry(FilenameText(Day1, DefaultSlug, Uuid1Text), 9, tmpl, TRUE, FALSE),
    DirEntry(FilenameText(Day1, FixSlug, Uuid1Text), 8, UsedContent, TRUE, FALSE),
    DirEntry(FilenameText(Day1, DefaultSlug, Uuid2Text), 9, tmpl, TRUE, FALSE),
    DirEntry(FilenameText(Day1, DefaultSlug, Uuid2Text), 7, TitledContent, TRUE, FALSE),
    DirEntry(FilenameText(Day2, FixSlug, Uuid2Text), 8, UsedContent, TRUE, FALSE),
    DirEntry(FilenameText(Day2, FixSlug, Uuid2Text), 2, UsedContent, TRUE, FALSE),
    DirEntry(FilenameText(Day2, DefaultSlug, Uuid2Text), 9, UsedContent, FALSE, FALSE),
    DirEntry(FilenameText(Day2, DefaultSlug, Uuid2Text), 6, UsedContent, TRUE, TRUE),
    DirEntry(FilenameText(Day1, UuidTailSlug, Uuid1Text), 5, UsedContent, TRUE, FALSE),
    DirEntry(NotesName, 9, UsedContent, TRUE, FALSE),
    DirEntry(ReadmeName, 9, UsedContent, TRUE, FALSE) }

\* readdir results: up to MaxEntries entries with different names, in any order
DirInputs ==
  UNION {{d \in [1..n -> ListEntryInputs] :
            \A i, j \in 1..n : i # j => d[i].name # d[j].name} : n \in 0..MaxEntries}

ListOptions(maxAge, date, exclude, excludeTemplates, limit) ==
  [maxAge |-> maxAge, date |-> date, exclude |-> exclude,
   excludeTemplates |-> excludeTemplates, limit |-> limit]

\* the options of the start hook, part_009:55-59
StartListOptions(sessionId) == ListOptions(7, NoDate, sessionId, TRUE, NoVal)

ListOptionInputs ==
  { StartListOptions(Uuid1Text), StartListOptions(Uuid2Text),
    ListOptions(NoVal, NoDate, NoExclude, FALSE, NoVal),
    ListOptions(7, NoDate, NoExclude, FALSE, NoVal),
    ListOptions(NoVal, NoDate, Uuid2Text, FALSE, NoVal),
    ListOptions(NoVal, NoDate, NoExclude, TRUE, NoVal),
    ListOptions(NoVal, NoDate, NoExclude, FALSE, 1),
    ListOptions(7, NoDate, Uuid1Text, TRUE, 2),
    ListOptions(NoVal, Day2, NoExclude, FALSE, NoVal) }

SessionInfo(e, parsed) ==
  [filename |-> e.name, date |-> parsed.date, titleSlug |-> parsed.titleSlug,
   uuid |-> parsed.uuid, mtime |-> e.mtime]

\* mutation: the excluded UUID is not looked at
Excluded_Never(parsed, opts) == FALSE

\* line 159
Excluded(parsed, opts) == opts.exclude # NoExclude /\ parsed.uuid = opts.exclude

\* line 165: `maxAgeMs && now - stats.mtimeMs > maxAgeMs`
TooOld(e, opts) == opts.maxAge # NoVal /\ opts.maxAge # 0 /\ NowDay - e.mtime > opts.maxAge

\* lines 152-185: the loop over the names; a throwing fs.stat ends it with the
\* results gathered so far
RECURSIVE ListScan(_, _, _)
ListScan(entries, opts, results) ==
  IF entries = <<>> THEN results
  ELSE LET e == Head(entries)
           parsed == parseSessionFilename(e.name)
           rest == Tail(entries)
       IN IF ~EndsWithTmp(e.name) \/ parsed = NoParse THEN ListScan(rest, opts, results)
          ELSE IF Excluded(parsed, opts) THEN ListScan(rest, opts, results)
          ELSE IF opts.date # NoDate /\ parsed.date # opts.date
            THEN ListScan(rest, opts, results)
          ELSE IF e.statFails THEN results
          ELSE IF TooOld(e, opts) THEN ListScan(rest, opts, results)
          ELSE IF opts.excludeTemplates /\ (~e.readable \/ isTemplate(e.content))
            THEN ListScan(rest, opts, results)
          ELSE ListScan(rest, opts, Append(results, SessionInfo(e, parsed)))

\* Array.prototype.sort with (a, b) => b.mtime - a.mtime: stable, newest first
RECURSIVE InsertByMtime(_, _)
InsertByMtime(sorted, x) ==
  IF sorted = <<>> THEN <<x>>
  ELSE IF Head(sorted).mtime >= x.mtime THEN <<Head(sorted)>> \o InsertByMtime(Tail(sorted), x)
  ELSE <<x>> \o sorted

RECURSIVE SortByMtimeDesc(_)
SortByMtimeDesc(results) ==
  IF results = <<>> THEN <<>>
  ELSE InsertByMtime(SortByMtimeDesc(SubSeq(results, 1, Len(results) - 1)),
                     results[Len(results)])

\* results.slice(0, limit) for limit >= 0
SliceTo(results, limit) ==
  SubSeq(results, 1, IF limit < Len(results) THEN limit ELSE Len(results))

listSessions(dir, opts, readdirFails) ==
  LET limit == IF opts.limit = NoVal THEN DEFAULT_LIMIT ELSE opts.limit
      results == IF readdirFails THEN <<>> ELSE ListScan(dir, opts, <<>>)
  IN SliceTo(SortByMtimeDesc(results), limit)

\* listSessions applied to one drawn directory and one drawn set of options
InitList ==
  /\ toolCountFile = [k \in Keys |-> None]
  /\ lastNotifiedFile = [k \in Keys |-> None]
  /\ flagFile = [k \in Keys |-> None]
  /\ sessionFiles = [f \in {} |-> None]
  /\ sinceReset = [k \in Keys |-> 0]
  /\ out = <<>>
  /\ InitRest
  /\ call \in [hook : {"listInput"}, dir : DirInputs, opts : ListOptionInputs,
               readdirFails : BOOLEAN]

ListCall ==
  /\ call.hook = "listInput"
  /\ call' = [call EXCEPT !.hook = "list"]
  /\ out' = listSessions(call.dir, call.opts, call.readdirFails)
  /\ UNCHANGED <<toolCountFile, lastNotifiedFile, flagFile, sessionFiles, sinceReset>>
  /\ UNCHANGED <<exitCode, workspaceFiles, inflight, legacyVars>>

NextList == ListCall
SpecList == InitList /\ [][NextList]_vars

\* ------------------------------------------ two conversations, one project
\* the second conversation makes only a few tool calls
IsolationCap(cid) == IF cid \in Sessions THEN MaxFaultCount ELSE MaxFlagCount

\* both conversations start (while they have no record), count, compact,
\* check, set a title and end, every payload complete and every file operation
\* succeeding
NextIsolation ==
  \/ \E cid \in HostIds : CountRoom(cid, IsolationCap(cid)) /\ CountTool(cid, TRUE, "none")
  \/ \E cid \in HostIds, time \in Times :
       LogRoom(cid) /\ PreCompact(cid, TRUE, time, 80, 3, "none")
  \/ \E cid \in HostIds, time \in Times, session \in SessionChoices :
       StopHook(cid, 0, TRUE, time, "none", FALSE, session)
  \/ \E sid \in HostIds, date \in Dates, time \in Times :
       findSession(sessionFiles, sid) = {} /\ SessionStart(sid, date, time, "none")
  \/ \E fn \in DOMAIN sessionFiles, time \in EditTimes :
       AgentEdit(fn, "title", HyphenTitle, time)
  \/ \E sid \in HostIds, session \in SessionChoices : SessionEnd(sid, TRUE, session, "none")
SpecIsolation == Init /\ [][NextIsolation]_vars

\* ------------------------------------- overlapping count-tool invocations
\* A count-tool process between its steps: the id it counts for, the count it
\* read, where it is ("read": before writeFile; "opened": writeFile has opened
\* the file, which empties it, and has not written yet), the stored count when
\* the group of overlapping invocations began, and the size of that group.
InFlight(cid, count, pc, base, group) ==
  [cid |-> cid, count |-> count, pc |-> pc, base |-> base, group |-> group]

Others(p) == {q \in Procs \ {p} : inflight[q] # None}

\* lines 26-31: the process starts and reads the counter file; a file another
\* process has opened for writing reads as the empty text, which parseInt
\* turns into NaN and `|| 0` into 0
CountToolRead(p, cid) ==
  /\ inflight[p] = None
  /\ \A q \in Others(p) : inflight[q][1].cid = cid /\ inflight[q][1].group < MaxOverlap
  /\ LET count == ReadCount(toolCountFile[cid], FALSE)
         base == IF Others(p) = {} THEN count
                 ELSE inflight[CHOOSE q \in Others(p) : TRUE][1].base
         group == Cardinality(Others(p)) + 1
     IN inflight' = [q \in Procs |->
                       IF q = p THEN Some(InFlight(cid, count, "read", base, group))
                       ELSE IF inflight[q] = None THEN None
                       ELSE Some([inflight[q][1] EXCEPT !.group = group])]
  /\ call' = [hook |-> "countStep", cid |-> cid, proc |-> p, step |-> "read"]
  /\ UNCHANGED <<toolCountFile, lastNotifiedFile, flagFile, sessionFiles, sinceReset, out>>
  /\ UNCHANGED <<exitCode, workspaceFiles, legacyVars>>

\* line 33, first half: writeFile opens the file with truncation
CountToolOpen(p) ==
  /\ inflight[p] # None /\ inflight[p][1].pc = "read"
  /\ LET cid == inflight[p][1].cid IN
     /\ toolCountFile' = [toolCountFile EXCEPT ![cid] = Some(<<>>)]
     /\ call' = [hook |-> "countStep", cid |-> cid, proc |-> p, step |-> "open"]
  /\ inflight' = [inflight EXCEPT ![p] = Some([@[1] EXCEPT !.pc = "opened"])]
  /\ UNCHANGED <<lastNotifiedFile, flagFile, sessionFiles, sinceReset, out>>
  /\ UNCHANGED <<exitCode, workspaceFiles, legacyVars>>

\* line 33, second half, and line 38: the text is written and the process exits
CountToolFinish(p) ==
  /\ inflight[p] # None /\ inflight[p][1].pc = "opened"
  /\ LET cid == inflight[p][1].cid IN
     /\ toolCountFile' =
          [toolCountFile EXCEPT ![cid] = Some(CountToolWrite(inflight[p][1].count))]
     /\ sinceReset' = [sinceReset EXCEPT ![cid] = @ + 1]
     /\ call' = [hook |-> "countStep", cid |-> cid, proc |-> p, step |-> "write",
                 base |-> inflight[p][1].base, group |-> inflight[p][1].group]
  /\ inflight' = [inflight EXCEPT ![p] = None]
  /\ out' = <<>>
  /\ exitCode' = ExitStatus(FALSE, TRUE)
  /\ UNCHANGED <<lastNotifiedFile, flagFile, sessionFiles>>
  /\ UNCHANGED <<workspaceFiles, legacyVars>>

\* no count-tool process is started once MaxRaceCount of them have run or run
RaceRoom(cid) ==
  sinceReset[cid] + Cardinality({q \in Procs : inflight[q] # None}) < MaxRaceCount

\* count-tool processes of one conversation, at most MaxOverlap of them
\* overlapping
NextRace ==
  \/ \E p \in Procs, cid \in Sessions : RaceRoom(cid) /\ CountToolRead(p, cid)
  \/ \E p \in Procs : CountToolOpen(p)
  \/ \E p \in Procs : CountToolFinish(p)
SpecRace == Init /\ [][NextRace]_vars

\* ------------------------------------------- milestones of a titled record
\* one conversation counts to the second milestone while its record is
\* started (when it has none), ticked, titled and ended; no compaction
NextMilestone ==
  \/ \E cid \in Sessions : CountRoom(cid, MaxMilestoneCount) /\ CountTool(cid, TRUE, "none")
  \/ \E cid \in Sessions, time \in Times, session \in SessionChoices :
       StopHook(cid, 0, TRUE, time, "none", FALSE, session)
  \/ \E sid \in Sessions, date \in Dates, time \in Times :
       findSession(sessionFiles, sid) = {} /\ SessionStart(sid, date, time, "none")
  \/ \E fn \in DOMAIN sessionFiles, kind \in {"title", "check"}, time \in EditTimes :
       AgentEdit(fn, kind, HyphenTitle, time)
  \/ \E sid \in Sessions, session \in SessionChoices : SessionEnd(sid, TRUE, session, "none")
SpecMilestone == Init /\ [][NextMilestone]_vars

\* ------------------------------------- the transcript-scanning stop hook
\* The earlier variant of the periodic check: it keeps no counter of its own
\* and counts the `[Tool call]` markers of the .txt transcript on every stop.
\* In this variant sinceReset counts the markers the host has added since the
\* offset file was last written.

\* mutation: the offset is written as zero
LegacyOffset_Zero(currentToolCount) == ToStr(0)

\* line 79: the text written to cursor-tool-offset-<id>
LegacyOffset(currentToolCount) == ToStr(currentToolCount)

\* lines 121-125: the offset read back, 0 without a file
ReadOffset(ofile) == IF ofile = None THEN 0 ELSE ParseIntOr0(ofile[1])

\* line 127: Math.max(0, toolCallCount - offset)
EffectiveToolCount(toolCallCount, ofile) ==
  IF toolCallCount - ReadOffset(ofile) < 0 THEN 0 ELSE toolCallCount - ReadOffset(ofile)

\* lines 142-143: the boundary the effective count has to reach
LegacyNextMilestone(lastNotifiedCallCount) ==
  ((lastNotifiedCallCount \div INTERVAL) + 1) * INTERVAL

\* Lines 112-169: the milestone evaluation on the given file contents.
\* Result: the new cursor-last-notified file and the lines printed.
LegacyMilestoneEval(raw, ofile, lfile, session) ==
  LET effectiveToolCount == EffectiveToolCount(raw, ofile)
      lastNotifiedCallCount == ReadLastNotified(lfile)
  IN IF effectiveToolCount < LegacyNextMilestone(lastNotifiedCallCount)
       THEN [ln |-> lfile, out |-> <<EmptyObj>>]
     ELSE IF session = NoSession
       THEN [ln |-> lfile, out |-> <<EmptyObj>>]
     ELSE [ln |-> Some(NotifiedValue(effectiveToolCount)),
           out |-> <<MilestoneMessage(effectiveToolCount, session)>>]

\* the file operations of the compaction branch (lines 63-110) that may throw
LegacyFaults == {"none", "flagRead", "offsetWrite", "lnReset"}

\* the host appends one tool-call marker to the transcript of a conversation
TranscriptAppend(cid) ==
  /\ transcriptFile[cid] < MaxTranscript
  /\ transcriptFile' = [transcriptFile EXCEPT ![cid] = @ + 1]
  /\ sinceReset' = [sinceReset EXCEPT ![cid] = @ + 1]
  /\ call' = Call("transcript", cid, 0, TRUE, "none", FALSE)
  /\ out' = <<>>
  /\ UNCHANGED <<toolCountFile, lastNotifiedFile, flagFile, sessionFiles, exitCode,
                 workspaceFiles, inflight, toolOffsetFile>>

LegacyStopHook(cid, loop, tp, time, fault, session) ==
  LET sessionId == IF cid = NoId THEN DefaultId ELSE cid
      raw == transcriptFile[sessionId]
      ofile == toolOffsetFile[sessionId]
      lfile == lastNotifiedFile[sessionId]
      flag == flagFile[sessionId]
      \* the catch block (lines 101-109) and the fall-through, with the offset
      \* and last-notified files as the throw left them
      caught(o) ==
        LET r == LegacyMilestoneEval(raw, o, lfile, session) IN
        /\ flagFile' = [flagFile EXCEPT ![sessionId] = CatchCleanup(flag)]
        /\ toolOffsetFile' = [toolOffsetFile EXCEPT ![sessionId] = o]
        /\ lastNotifiedFile' = [lastNotifiedFile EXCEPT ![sessionId] = r.ln]
        /\ out' = r.out
        /\ UNCHANGED sessionFiles
  IN
  /\ call' = Call("legacystop", cid, loop, tp, fault, FALSE)
  /\ exitCode' = ExitStatus(FALSE, TRUE)
  /\ UNCHANGED <<toolCountFile, workspaceFiles, inflight, transcriptFile>>
  /\ IF SkipCheck(loop, tp) THEN
       \* lines 48-51
       /\ fault = "none" /\ session = NoSession
       /\ out' = <<EmptyObj>>
       /\ UNCHANGED <<lastNotifiedFile, flagFile, sessionFiles, sinceReset, toolOffsetFile>>
     ELSE IF flag # None THEN
       \* compaction branch, lines 63-110
       /\ session \in FoundSessions(sessionFiles, sessionId)
       /\ fault \in LegacyFaults
       /\ CASE fault = "flagRead" ->
                 caught(ofile) /\ UNCHANGED sinceReset
            [] fault = "offsetWrite" ->
                 caught(ofile) /\ UNCHANGED sinceReset
            [] fault = "lnReset" ->
                 /\ caught(Some(LegacyOffset(raw)))
                 /\ sinceReset' = [sinceReset EXCEPT ![sessionId] = 0]
            [] fault = "none" ->
                 /\ flagFile' = [flagFile EXCEPT ![sessionId] = DeleteFlag(flag)]
                 /\ toolOffsetFile' =
                      [toolOffsetFile EXCEPT ![sessionId] = Some(LegacyOffset(raw))]
                 /\ lastNotifiedFile' =
                      [lastNotifiedFile EXCEPT ![sessionId] = Some(ResetNotified)]
                 /\ sessionFiles' =
                      IF session # NoSession
                        THEN appendToSession(sessionFiles, session,
                               CompactionLogEntry(time, flag[1].messages_to_compact))
                        ELSE sessionFiles
                 /\ out' = CompactionOutput(flag[1])
                 /\ sinceReset' = [sinceReset EXCEPT ![sessionId] = 0]
     ELSE
       \* milestone evaluation, lines 112-169
       /\ fault = "none"
       /\ session \in FoundSessions(sessionFiles, sessionId)
       /\ LET r == LegacyMilestoneEval(raw, ofile, lfile, session) IN
          /\ lastNotifiedFile' = [lastNotifiedFile EXCEPT ![sessionId] = r.ln]
          /\ out' = r.out
       /\ UNCHANGED <<flagFile, sessionFiles, sinceReset, toolOffsetFile>>

\* One conversation under the transcript-scanning hook: the host adds markers,
\* compaction is announced, stops are evaluated, the record is started.
NextLegacy ==
  \/ \E cid \in Sessions : TranscriptAppend(cid)
  \/ \E cid \in Sessions, time \in Times :
       LogRoom(cid) /\ PreCompact(cid, TRUE, time, 80, 3, "none")
  \/ \E cid \in Sessions, loop \in {0, 1}, tp \in BOOLEAN, time \in Times,
        fault \in LegacyFaults, session \in SessionChoices :
       LegacyStopHook(cid, loop, tp, time, fault, session)
  \/ \E sid \in Sessions, date \in Dates, time \in Times :
       findSession(sessionFiles, sid) = {} /\ SessionStart(sid, date, time, "none")
SpecLegacy == Init /\ [][NextLegacy]_vars

\* ------------------------------------------ the two stop hooks side by side
\* The direct-counter evaluation runs on the files of TwinDirect and the
\* transcript-scanning evaluation on those of TwinLegacy; both see the same
\* count at every check, the record of TwinDirect serves both, and no
\* compaction is announced.
TwinDirect == "u1"
TwinLegacy == "u2"

\* one tool call: count-tool adds one to the counter, the host adds one marker
TwinToolCall ==
  LET count == ReadCount(toolCountFile[TwinDirect], FALSE) IN
  /\ count < MaxMilestoneCount
  /\ toolCountFile' = [toolCountFile EXCEPT ![TwinDirect] = Some(CountToolWrite(count))]
  /\ transcriptFile' = [transcriptFile EXCEPT ![TwinLegacy] = @ + 1]
  /\ sinceReset' = [sinceReset EXCEPT ![TwinDirect] = @ + 1, ![TwinLegacy] = @ + 1]
  /\ call' = Call("twincount", TwinDirect, 0, TRUE, "none", FALSE)
  /\ out' = <<>>
  /\ exitCode' = ExitStatus(FALSE, TRUE)
  /\ UNCHANGED <<lastNotifiedFile, flagFile, sessionFiles, workspaceFiles, inflight,
                 toolOffsetFile>>

\* one periodic check: part_004 lines 278-317 and lines 112-169 on the same count;
\* the first printed line is the direct hook's, the second the scanning hook's
TwinCheck(session) ==
  LET d == MilestoneEval(toolCountFile[TwinDirect], lastNotifiedFile[TwinDirect],
                         session, "none")
      l == LegacyMilestoneEval(transcriptFile[TwinLegacy], toolOffsetFile[TwinLegacy],
                               lastNotifiedFile[TwinLegacy], session)
  IN
  /\ session \in findSession(sessionFiles, TwinDirect)
  /\ lastNotifiedFile' = [lastNotifiedFile EXCEPT ![TwinDirect] = d.ln,
                                                  ![TwinLegacy] = l.ln]
  /\ out' = d.out \o l.out
  /\ call' = Call("twincheck", TwinDirect, 0, TRUE, "none", FALSE)
  /\ exitCode' = ExitStatus(FALSE, TRUE)
  /\ UNCHANGED <<toolCountFile, flagFile, sessionFiles, sinceReset, workspaceFiles,
                 inflight, toolOffsetFile, transcriptFile>>

NextTwin ==
  \/ TwinToolCall
  \/ \E session \in SessionChoices : TwinCheck(session)
  \/ \E date \in Dates, time \in Times :
       findSession(sessionFiles, TwinDirect) = {}
       /\ SessionStart(TwinDirect, date, time, "none")
SpecTwin == Init /\ [][NextTwin]_vars

\* ------------------------------------------------ checks that keep coming
\* One conversation whose record exists, under the direct-counter hooks, with
\* the host's scheduling taken as given: count-tool runs for every tool call
\* and an eligible periodic check follows every turn.

\* the agent rewrites the Session Log of a record down to its first entry
AgentCondenseLog(fn) ==
  /\ Len(sessionFiles[fn].log) > 1
  /\ call' = Call("edit", fn.uuid, 0, TRUE, "none", FALSE)
  /\ out' = <<>>
  /\ sessionFiles' = [sessionFiles EXCEPT ![fn].log = SubSeq(@, 1, 1)]
  /\ UNCHANGED <<toolCountFile, lastNotifiedFile, flagFile, sinceReset>>
  /\ UNCHANGED <<exitCode, workspaceFiles, inflight, legacyVars>>

LiveToolCall ==
  \E cid \in Sessions : CountRoom(cid, MaxMilestoneCount) /\ CountTool(cid, TRUE, "none")

LiveCheck ==
  \E cid \in Sessions, time \in Times, session \in SessionChoices :
    StopHook(cid, 0, TRUE, time, "none", FALSE, session)

NextLive ==
  \/ LiveToolCall
  \/ LiveCheck
  \/ \E cid \in Sessions, time \in Times :
       LogRoom(cid) /\ PreCompact(cid, TRUE, time, 80, 3, "none")
  \/ \E sid \in Sessions, date \in Dates, time \in Times :
       findSession(sessionFiles, sid) = {} /\ SessionStart(sid, date, time, "none")
  \/ \E fn \in DOMAIN sessionFiles : AgentCondenseLog(fn)

\* tool calls and eligible checks are not postponed forever
SpecLive ==
  Init /\ [][NextLive]_vars /\ WF_vars(LiveToolCall) /\ WF_vars(LiveCheck)

\* -------------------------------------- compaction and the end of a session
\* Start triggers on either day, a few tool calls, then compactions and end
\* triggers. Counts stay below the first milestone, so the compaction branch is
\* the only writer of cursor-last-notified, and every record here is created
\* before the first compaction of its conversation is handled.
StartBeforeCompaction(sid) == lastNotifiedFile[sid] = None

NextCompactEnd ==
  \/ \E sid \in Sessions, date \in RegistryDates, time \in Times :
       /\ RecordRoom(sid, date) /\ StartBeforeCompaction(sid)
       /\ SessionStart(sid, date, time, "none")
  \/ \E cid \in Sessions : CountRoom(cid, MaxFlagCount) /\ CountTool(cid, TRUE, "none")
  \/ \E cid \in Sessions, time \in Times :
       LogRoom(cid) /\ PreCompact(cid, TRUE, time, 80, 3, "none")
  \/ \E cid \in Sessions, loop \in {0, 1}, time \in Times, session \in SessionChoices :
       StopHook(cid, loop, TRUE, time, "none", FALSE, session)
  \/ \E sid \in Sessions, session \in SessionChoices :
       SessionEnd(sid, TRUE, session, "none")
SpecCompactEnd == Init /\ [][NextCompactEnd]_vars

\* --------------------------------------- overlapping periodic checks
\* A periodic check that found the compaction flag, between its file
\* operations. pc: "seen" (exists() gave true), "read" (the flag's JSON is
\* read), "deleted", "opened" (Bun.write has emptied the counter file),
\* "reset" (the counter holds 0), "notified" (last-notified holds 0), "eval"
\* (the try block threw, the catch block found no flag to delete, and the
\* milestone evaluation is next). base is the number of compaction lines in the
\* records of the conversation when the group of overlapping processes began.
StopFlight(cid, flag, pc, base, group) ==
  [cid |-> cid, count |-> 0, flag |-> flag, pc |-> pc, base |-> base, group |-> group]

RECURSIVE CompactionLines(_)
CompactionLines(log) ==
  IF log = <<>> THEN 0
  ELSE (IF Head(log).kind = "compacted" THEN 1 ELSE 0) + CompactionLines(Tail(log))

RECURSIVE SumLines(_, _)
SumLines(files, names) ==
  IF names = {} THEN 0
  ELSE LET fn == CHOOSE f \in names : TRUE
       IN CompactionLines(files[fn].log) + SumLines(files, names \ {fn})

\* the compaction lines in the records of a conversation
LoggedCompactions(files, cid) == SumLines(files, findSession(files, cid))

StopStep(p, step) ==
  [hook |-> "stopStep", cid |-> inflight[p][1].cid, proc |-> p, step |-> step,
   base |-> inflight[p][1].base, group |-> inflight[p][1].group]

At(p, pc) == inflight[p] # None /\ inflight[p][1].pc = pc
Moves(p, pc) == inflight' = [inflight EXCEPT ![p] = Some([@[1] EXCEPT !.pc = pc])]

\* lines 223-240: the process starts and finds the flag file to exist
StopSeeFlag(p, cid) ==
  /\ inflight[p] = None
  /\ flagFile[cid] # None
  /\ \A q \in Others(p) : inflight[q][1].cid = cid /\ inflight[q][1].group < MaxOverlap
  /\ LET base == IF Others(p) = {} THEN LoggedCompactions(sessionFiles, cid)
                 ELSE inflight[CHOOSE q \in Others(p) : TRUE][1].base
         group == Cardinality(Others(p)) + 1
     IN inflight' = [q \in Procs |->
                       IF q = p THEN Some(StopFlight(cid, None, "seen", base, group))
                       ELSE IF inflight[q] = None THEN None
                       ELSE Some([inflight[q][1] EXCEPT !.group = group])]
  /\ call' = [hook |-> "stopStep", cid |-> cid, proc |-> p, step |-> "see"]
  /\ out' = IF Others(p) = {} THEN <<>> ELSE out
  /\ UNCHANGED <<toolCountFile, lastNotifiedFile, flagFile, sessionFiles, sinceReset>>
  /\ UNCHANGED <<exitCode, workspaceFiles, legacyVars>>

\* line 242: Bun.file(flagFile).json(); a file that is gone makes it throw, and
\* the catch block (lines 267-275) then finds nothing to delete
StopReadFlag(p) ==
  /\ At(p, "seen")
  /\ LET cid == inflight[p][1].cid IN
     inflight' = [inflight EXCEPT ![p] =
                    IF flagFile[cid] = None
                      THEN Some([@[1] EXCEPT !.pc = "eval"])
                      ELSE Some([@[1] EXCEPT !.pc = "read", !.flag = flagFile[cid]])]
  /\ call' = StopStep(p, "readFlag")
  /\ UNCHANGED <<toolCountFile, lastNotifiedFile, flagFile, sessionFiles, sinceReset, out>>
  /\ UNCHANGED <<exitCode, workspaceFiles, legacyVars>>

\* mutation: deleting a file that is gone passes silently
UnlinkThrows_Never(flagv) == FALSE

\* line 243: Bun.file(flagFile).delete() is unlink, which rejects with ENOENT
\* when another process has removed the file
UnlinkThrows(flagv) == flagv = None

StopDeleteFlag(p) ==
  /\ At(p, "read")
  /\ LET cid == inflight[p][1].cid IN
     /\ flagFile' = [flagFile EXCEPT ![cid] = DeleteFlag(@)]
     /\ IF UnlinkThrows(flagFile[cid]) THEN Moves(p, "eval") ELSE Moves(p, "deleted")
  /\ call' = StopStep(p, "deleteFlag")
  /\ UNCHANGED <<toolCountFile, lastNotifiedFile, sessionFiles, sinceReset, out>>
  /\ UNCHANGED <<exitCode, workspaceFiles, legacyVars>>

\* line 246, first half: Bun.write opens the counter file, which empties it
StopOpenCount(p) ==
  /\ At(p, "deleted")
  /\ toolCountFile' = [toolCountFile EXCEPT ![inflight[p][1].cid] = Some(<<>>)]
  /\ Moves(p, "opened")
  /\ call' = StopStep(p, "openCount")
  /\ UNCHANGED <<lastNotifiedFile, flagFile, sessionFiles, sinceReset, out>>
  /\ UNCHANGED <<exitCode, workspaceFiles, legacyVars>>

\* line 246, second half: '0' is written
StopResetCount(p) ==
  /\ At(p, "opened")
  /\ toolCountFile' = [toolCountFile EXCEPT ![inflight[p][1].cid] = Some(ResetCount)]
  /\ sinceReset' = [sinceReset EXCEPT ![inflight[p][1].cid] = 0]
  /\ Moves(p, "reset")
  /\ call' = StopStep(p, "resetCount")
  /\ UNCHANGED <<lastNotifiedFile, flagFile, sessionFiles, out>>
  /\ UNCHANGED <<exitCode, workspaceFiles, legacyVars>>

\* lines 249-253
StopResetNotified(p) ==
  /\ At(p, "reset")
  /\ lastNotifiedFile' = [lastNotifiedFile EXCEPT ![inflight[p][1].cid] = Some(ResetNotified)]
  /\ Moves(p, "notified")
  /\ call' = StopStep(p, "resetNotified")
  /\ UNCHANGED <<toolCountFile, flagFile, sessionFiles, sinceReset, out>>
  /\ UNCHANGED <<exitCode, workspaceFiles, legacyVars>>

\* lines 255-266: the log line, the follow-up message, exit
StopFinish(p, time, session) ==
  /\ At(p, "notified")
  /\ LET cid == inflight[p][1].cid
         flagData == inflight[p][1].flag[1]
     IN /\ session \in FoundSessions(sessionFiles, cid)
        /\ sessionFiles' =
             IF session # NoSession
               THEN appendToSession(sessionFiles, session,
                      CompactionLogEntry(time, flagData.messages_to_compact))
               ELSE sessionFiles
        /\ out' = out \o CompactionOutput(flagData)
  /\ inflight' = [inflight EXCEPT ![p] = None]
  /\ call' = StopStep(p, "finish")
  /\ exitCode' = ExitStatus(FALSE, TRUE)
  /\ UNCHANGED <<toolCountFile, lastNotifiedFile, flagFile, sinceReset>>
  /\ UNCHANGED <<workspaceFiles, legacyVars>>

\* lines 278-317 after the catch block: the milestone evaluation, exit
StopEvaluate(p, session) ==
  /\ At(p, "eval")
  /\ LET cid == inflight[p][1].cid
         r == MilestoneEval(toolCountFile[cid], lastNotifiedFile[cid], session, "none")
     IN /\ session \in FoundSessions(sessionFiles, cid)
        /\ lastNotifiedFile' = [lastNotifiedFile EXCEPT ![cid] = r.ln]
        /\ out' = out \o r.out
  /\ inflight' = [inflight EXCEPT ![p] = None]
  /\ call' = StopStep(p, "evaluate")
  /\ exitCode' = ExitStatus(FALSE, TRUE)
  /\ UNCHANGED <<toolCountFile, flagFile, sessionFiles, sinceReset>>
  /\ UNCHANGED <<workspaceFiles, legacyVars>>

NoneInFlight == \A p \in Procs : inflight[p] = None

\* the steps of a periodic check that is under way
StopSteps(p) ==
  \/ StopReadFlag(p)
  \/ StopDeleteFlag(p)
  \/ StopOpenCount(p)
  \/ StopResetCount(p)
  \/ StopResetNotified(p)
  \/ \E time \in Times, session \in SessionChoices : StopFinish(p, time, session)
  \/ \E session \in SessionChoices : StopEvaluate(p, session)

\* Periodic checks of one conversation that may overlap; tool calls, the
\* pre-compaction trigger and the start trigger run while no check is under
\* way, so the flag two overlapping checks see is the same one.
NextHandoff ==
  \/ \E p \in Procs, cid \in Sessions : StopSeeFlag(p, cid)
  \/ \E p \in Procs : StopSteps(p)
  \/ \E cid \in Sessions :
       NoneInFlight /\ CountRoom(cid, MaxFaultCount) /\ CountTool(cid, TRUE, "none")
  \/ \E cid \in Sessions, time \in Times :
       NoneInFlight /\ LogRoom(cid) /\ PreCompact(cid, TRUE, time, 80, 3, "none")
  \/ \E sid \in Sessions, date \in Dates, time \in Times :
       /\ NoneInFlight /\ findSession(sessionFiles, sid) = {}
       /\ SessionStart(sid, date, time, "none")
SpecHandoff == Init /\ [][NextHandoff]_vars

\* ------------------------------- a tool call during a compaction handling
\* Process CountProc runs count-tool, process CheckProc runs a periodic check
\* that found the flag; their file operations interleave freely. The counter
\* is brought up, the flag raised and the record started while neither runs.
CountProc == 1
CheckProc == 2

NextResetRace ==
  \/ \E cid \in Sessions :
       /\ RaceRoom(cid) /\ CountRoom(cid, MaxRaceCount)
       /\ CountToolRead(CountProc, cid)
  \/ CountToolOpen(CountProc)
  \/ CountToolFinish(CountProc)
  \/ \E cid \in Sessions : StopSeeFlag(CheckProc, cid)
  \/ StopReadFlag(CheckProc)
  \/ StopDeleteFlag(CheckProc)
  \/ StopOpenCount(CheckProc)
  \/ StopResetCount(CheckProc)
  \/ StopResetNotified(CheckProc)
  \/ \E time \in Times, session \in SessionChoices : StopFinish(CheckProc, time, session)
  \/ \E cid \in Sessions, time \in Times :
       NoneInFlight /\ LogRoom(cid) /\ PreCompact(cid, TRUE, time, 80, 3, "none")
  \/ \E sid \in Sessions, date \in Dates, time \in Times :
       /\ NoneInFlight /\ findSession(sessionFiles, sid) = {}
       /\ SessionStart(sid, date, time, "none")
SpecResetRace == Init /\ [][NextResetRace]_vars

\* ------------------------------------------------- slugifyTitle on its own
\* Titles are a run of letters followed by a short tail over TitleAlphabet, so
\* that they reach across the 60-character cut.
TitleAlphabet == {"a", "B", "-", " ", "!"}
TitlePad(n) == [i \in 1..n |-> "x"]
TitleInputs ==
  {TitlePad(n) \o tail : n \in 0..MaxTitlePad,
                         tail \in UNION {[1..m -> TitleAlphabet] : m \in 0..MaxTitleTail}}

InitSlug ==
  /\ toolCountFile = [k \in Keys |-> None]
  /\ lastNotifiedFile = [k \in Keys |-> None]
  /\ flagFile = [k \in Keys |-> None]
  /\ sessionFiles = [f \in {} |-> None]
  /\ sinceReset = [k \in Keys |-> 0]
  /\ out = <<>>
  /\ InitRest
  /\ call \in [hook : {"input"}, title : TitleInputs]

SlugifyCall ==
  /\ call.hook = "input"
  /\ call' = [call EXCEPT !.hook = "slugify"]
  /\ out' = <<slugifyTitle(call.title)>>
  /\ UNCHANGED <<toolCountFile, lastNotifiedFile, flagFile, sessionFiles, sinceReset>>
  /\ UNCHANGED <<exitCode, workspaceFiles, inflight, legacyVars>>

NextSlug == SlugifyCall
SpecSlug == InitSlug /\ [][NextSlug]_vars

\* ================================================================= claims
\* reading the state in the claims' terms
Num(file) == IF file = None THEN 0 ELSE ParseIntOr0(file[1])
KeyOf(c) == IF c.cid = NoId THEN DefaultId ELSE c.cid
HasRecord(files, k) == \E fn \in DOMAIN files : fn.uuid = k
EmitsMilestone(o) == \E i \in 1..Len(o) : o[i].kind \in {"first", "progress"}
EmitsCompact(o) == \E i \in 1..Len(o) : o[i].kind = "compact"
\* the step is a periodic check that passes the skip guard
EligibleStop == call'.hook = "stop" /\ call'.loop = 0 /\ call'.tp
WasEligibleStop == call.hook = "stop" /\ call.loop = 0 /\ call.tp

\* C1 (as stated): an eligible periodic check without a pending flag emits a
\* milestone follow-up if and only if toolCallCount >= lastNotifiedCount + 50.
C1_Original ==
  [][ (EligibleStop /\ call'.fault = "none" /\ flagFile[KeyOf(call')] = None)
      => (EmitsMilestone(out') <=>
            Num(toolCountFile[KeyOf(call')]) >= Num(lastNotifiedFile[KeyOf(call')]) + 50)
    ]_vars

\* C1 (amended): with every file operation succeeding, such a check emits a
\* milestone follow-up if and only if toolCallCount >= lastNotifiedCount + 50
\* and a session record of the conversation exists.
C1_MilestoneIff ==
  [][ (EligibleStop /\ call'.fault = "none" /\ flagFile[KeyOf(call')] = None)
      => (EmitsMilestone(out') <=>
            /\ Num(toolCountFile[KeyOf(call')]) >= Num(lastNotifiedFile[KeyOf(call')]) + 50
            /\ HasRecord(sessionFiles, KeyOf(call')))
    ]_vars

C1_Witness ==
  \E k \in Sessions :
    /\ WasEligibleStop /\ call.cid = k
    /\ sinceReset[k] = 50
    /\ toolCountFile[k] = Some(<<5, 0>>)
    /\ out = <<FirstUpdateMsg>>

C4_CompactionEndState ==
  [][ (EligibleStop /\ call'.fault = "none" /\ flagFile[KeyOf(call')] # None) =>
        LET k == KeyOf(call')
            m == flagFile[k][1].messages_to_compact
        IN /\ flagFile'[k] = None
           /\ toolCountFile'[k] = Some(<<0>>)
           /\ lastNotifiedFile'[k] = Some(<<0>>)
           /\ out' = <<CompactMsg(m)>>
           /\ DOMAIN sessionFiles' = DOMAIN sessionFiles
           /\ IF HasRecord(sessionFiles, k)
                THEN \E fn \in DOMAIN sessionFiles :
                       /\ fn.uuid = k
                       /\ Len(sessionFiles'[fn].log) = Len(sessionFiles[fn].log) + 1
                       /\ SubSeq(sessionFiles'[fn].log, 1, Len(sessionFiles[fn].log))
                            = sessionFiles[fn].log
                       /\ sessionFiles'[fn].log[Len(sessionFiles'[fn].log)].kind = "compacted"
                       /\ sessionFiles'[fn].log[Len(sessionFiles'[fn].log)].n = m
                       /\ \A g \in DOMAIN sessionFiles \ {fn} :
                            sessionFiles'[g] = sessionFiles[g]
                ELSE sessionFiles' = sessionFiles
    ]_vars

C4_Witness ==
  \E k \in Sessions :
    /\ WasEligibleStop /\ call.cid = k
    /\ out = <<CompactMsg(3)>>
    /\ flagFile[k] = None
    /\ toolCountFile[k] = Some(<<0>>) /\ lastNotifiedFile[k] = Some(<<0>>)
    /\ \E fn \in DOMAIN sessionFiles :
         /\ fn.uuid = k
         /\ sessionFiles[fn].log[Len(sessionFiles[fn].log)].kind = "compacted"
         /\ sessionFiles[fn].log[Len(sessionFiles[fn].log)].n = 3

C6_Original ==
  [][ (EligibleStop /\ flagFile[KeyOf(call')] # None)
      => flagFile'[KeyOf(call')] = None
    ]_vars

\* C6 (amended): the flag is absent at the end of such a check when parsing,
\* the counter write, the last-notified write or the append fails, and when
\* the first deletion fails but the deletion in the catch block succeeds; it
\* survives exactly when the deletion in the catch block fails as well.
C6_FlagRemovedUnlessCleanupFails ==
  [][ (EligibleStop /\ flagFile[KeyOf(call')] # None)
      => (flagFile'[KeyOf(call')] # None
            <=> (call'.cleanupFails /\ call'.fault \in {"flagRead", "flagDelete"}))
    ]_vars

C6_Witness ==
  \E k \in Sessions :
    /\ WasEligibleStop /\ call.cid = k
    /\ call.fault \in {"flagRead", "flagDelete", "counterWrite", "lnReset", "append"}
    /\ ~call.cleanupFails
    /\ flagFile[k] = None

\* C7: a flag is consumed by at most one periodic check: the check that
\* handles it removes it and resets, and a check that finds no flag resets no
\* counter, appends no log line, prints no compaction message and still
\* prints its one JSON object.
C7_ConsumedOnce ==
  [][ call'.hook = "stop" =>
        LET k == KeyOf(call') IN
        /\ (EligibleStop /\ flagFile[k] # None) =>
             /\ flagFile'[k] = None
             /\ toolCountFile'[k] = Some(<<0>>)
             /\ EmitsCompact(out')
        /\ EmitsCompact(out') => (flagFile[k] # None /\ flagFile'[k] = None)
        /\ flagFile[k] = None =>
             /\ toolCountFile' = toolCountFile
             /\ sessionFiles' = sessionFiles
             /\ flagFile' = flagFile
             /\ ~EmitsCompact(out')
             /\ Len(out') = 1
             /\ \/ lastNotifiedFile' = lastNotifiedFile
                \/ /\ EmitsMilestone(out')
                   /\ lastNotifiedFile'[k] = toolCountFile[k]
    ]_vars

\* a second eligible check right after the reset: nothing left to consume
C7_Witness ==
  \E k \in Sessions :
    /\ WasEligibleStop /\ call.cid = k
    /\ out = <<EmptyObj>>
    /\ flagFile[k] = None
    /\ toolCountFile[k] = Some(<<0>>) /\ lastNotifiedFile[k] = Some(<<0>>)
    /\ sinceReset[k] = 0

\* C8: compaction handling is terminal: with the flag present and the
\* handling succeeding the check prints the compaction follow-up only and
\* lastNotifiedCount stays at the reset value 0; a milestone is evaluated only
\* in invocations that found no flag.
C8_CompactionTerminal ==
  [][ EligibleStop =>
        LET k == KeyOf(call') IN
        /\ (flagFile[k] # None /\ call'.fault = "none") =>
             /\ out' = <<CompactMsg(flagFile[k][1].messages_to_compact)>>
             /\ lastNotifiedFile'[k] = Some(<<0>>)
        /\ EmitsMilestone(out') => flagFile[k] = None
    ]_vars

\* C9: if a step of compaction handling throws, the check prints the empty
\* object and no follow-up of any kind.
C9_EmptyOnThrow ==
  [][ (EligibleStop /\ flagFile[KeyOf(call')] # None
         /\ call'.fault \in {"flagRead", "flagDelete", "counterWrite", "lnReset"})
      => out' = <<EmptyObj>>
    ]_vars

C11_Original ==
  [][ \A k \in Keys : Num(lastNotifiedFile'[k]) >= Num(lastNotifiedFile[k]) ]_vars

\* C11 (amended): the stored lastNotifiedCount is lowered only by a periodic
\* check that found the compaction flag, and then to 0; every other hook
\* invocation leaves it equal or higher.
C11_LoweredOnlyByReset ==
  [][ \A k \in Keys :
        Num(lastNotifiedFile'[k]) < Num(lastNotifiedFile[k]) =>
          /\ EligibleStop /\ KeyOf(call') = k
          /\ flagFile[k] # None
          /\ lastNotifiedFile'[k] = Some(<<0>>)
    ]_vars

\* the stored value has risen again after a compaction reset
C11_Witness ==
  \E k \in Sessions :
    /\ WasEligibleStop /\ call.cid = k
    /\ out = <<FirstUpdateMsg>>
    /\ lastNotifiedFile[k] = Some(<<6, 0>>)
    /\ \E fn \in DOMAIN sessionFiles :
         fn.uuid = k /\ \E i \in 1..Len(sessionFiles[fn].log) :
                          sessionFiles[fn].log[i].kind = "compacted"

\* C12: the stored lastNotifiedCount is always the reset value 0 or the value
\* toolCallCount held at the periodic check that stored it, never a
\* multiple-of-50 boundary the count skipped over: it changes only in an
\* eligible periodic check, to "0" when the flag was found and otherwise to the
\* count that check read, and it never exceeds the count reached since the
\* last reset.
C12_StoredIsObservedCount ==
  /\ [][ \A k \in Keys :
           lastNotifiedFile'[k] # lastNotifiedFile[k] =>
             /\ EligibleStop /\ KeyOf(call') = k
             /\ IF flagFile[k] # None
                  THEN lastNotifiedFile'[k] = Some(<<0>>)
                  ELSE /\ lastNotifiedFile'[k] = toolCountFile[k]
                       /\ toolCountFile'[k] = toolCountFile[k]
       ]_vars
  /\ [](\A k \in Keys : Num(lastNotifiedFile[k]) <= sinceReset[k])

\* a check at count 73 stored 73, not the boundary 50 it had passed
C12_Witness ==
  \E k \in Sessions :
    /\ WasEligibleStop /\ call.cid = k
    /\ EmitsMilestone(out)
    /\ toolCountFile[k] = Some(<<7, 3>>)
    /\ lastNotifiedFile[k] = Some(<<7, 3>>)

\* ------------------------------------------------------- registry claims
\* the step is an end trigger whose sessions directory resolved
ResolvedEnd == call'.hook = "end" /\ call'.tp
WasResolvedEnd == call.hook = "end" /\ call.tp
\* the content carries a title of the agent's: a heading whose text is neither
\* blank nor one of the placeholder strings
HasRealTitle(content) ==
  /\ content.heading
  /\ Trim(content.title) # <<>>
  /\ Trim(content.title) \notin SESSION_TITLE_PLACEHOLDERS
\* files2 is files with record fn moved to another name of the same date and uuid
RenamedFrom(files, files2, fn) ==
  \E t \in DOMAIN files2 :
    /\ t # fn /\ t.date = fn.date /\ t.uuid = fn.uuid
    /\ files2 = AddFile(RemoveFile(files, fn), t, files[fn])

\* C13: at an end trigger that resolves the session and reads its content, the
\* record is deleted if and only if the content is classified as a template;
\* otherwise it is retained, and renamed only if its slug is the default
\* 'session' and its content carries a real (non-placeholder) title.
C13_EndDeletesIffTemplate ==
  [][ (ResolvedEnd /\ call'.fault = "none" /\ findSession(sessionFiles, KeyOf(call')) # {})
      => \E fn \in findSession(sessionFiles, KeyOf(call')) :
           IF isTemplate(sessionFiles[fn])
             THEN sessionFiles' = RemoveFile(sessionFiles, fn)
             ELSE /\ \/ sessionFiles' = sessionFiles
                     \/ RenamedFrom(sessionFiles, sessionFiles', fn)
                  /\ RenamedFrom(sessionFiles, sessionFiles', fn) =>
                       /\ fn.titleSlug = DefaultSlug
                       /\ HasRealTitle(sessionFiles[fn])
    ]_vars

\* C14: after any sequence of start triggers, agent edits and end triggers the
\* sessions directory holds at most one record per UUID: a start trigger
\* creates a record only when none with that UUID exists, and then exactly
\* one, with the placeholder title.
C14_AtMostOneRecord ==
  /\ [](\A k \in Sessions : Cardinality(findSession(sessionFiles, k)) <= 1)
  /\ [][ call'.hook = "start" =>
           IF findSession(sessionFiles, call'.cid) # {}
             THEN sessionFiles' = sessionFiles
             ELSE \E fn \in DOMAIN sessionFiles' :
                    /\ DOMAIN sessionFiles' = DOMAIN sessionFiles \cup {fn}
                    /\ fn.uuid = call'.cid
                    /\ Trim(sessionFiles'[fn].title) = PlaceholderTitle
       ]_vars

\* C15: a record is renamed automatically at most once: once its slug differs
\* from the default 'session', no step (further title edits and end triggers
\* included) moves it to another name; it keeps its name until an end
\* trigger deletes it as a template.
C15_RenamedAtMostOnce ==
  [][ \A fn \in DOMAIN sessionFiles :
        fn.titleSlug # DefaultSlug =>
          \/ fn \in DOMAIN sessionFiles'
          \/ /\ call'.hook = "end"
             /\ isTemplate(sessionFiles[fn])
             /\ sessionFiles' = RemoveFile(sessionFiles, fn)
    ]_vars

\* an end trigger has run on a renamed record whose title was changed again
\* to one with a different slug
C15_Witness ==
  /\ WasResolvedEnd /\ call.fault = "none"
  /\ \E fn \in DOMAIN sessionFiles :
       /\ findSession(sessionFiles, call.cid) = {fn}
       /\ fn.titleSlug = slugifyTitle(HyphenTitle)
       /\ HasRealTitle(sessionFiles[fn])
       /\ renameTarget(fn, sessionFiles[fn]) # NoSession

\* C16: a successful rename changes only the slug segment of the file name:
\* date, UUID and content are unchanged, the old name is gone, every other
\* file is untouched, and findSession on the UUID afterwards returns the
\* renamed record, whatever the slug (hyphens included).
C16_RenameChangesOnlySlug ==
  \A fn \in DOMAIN sessionFiles :
    LET r == renameSessionFromTitle(sessionFiles, fn, sessionFiles[fn], FALSE) IN
    r.result # NoSession =>
      /\ r.result.date = fn.date /\ r.result.uuid = fn.uuid
      /\ r.result.titleSlug # fn.titleSlug
      /\ fn \notin DOMAIN r.files
      /\ r.result \in DOMAIN r.files
      /\ r.files[r.result] = sessionFiles[fn]
      /\ findSession(r.files, fn.uuid) = {r.result}

\* C17: for every date, every non-empty slug (embedded hyphens included) and
\* every canonical lowercase 8-4-4-4-12 UUID, parsing the file name
\* '<date>-<slug>-<uuid>.tmp' returns exactly the triple it was built from.
C17_ParseRecoversTriple ==
  call.hook = "parse" =>
    /\ out[1] = FilenameText(call.date, call.slug, call.uuid)
    /\ out[2] = [date |-> call.date, titleSlug |-> call.slug, uuid |-> call.uuid]

\* parsed back: a slug that is all hyphens, and one that ends in a UUID
C17_Witness ==
  /\ call.hook = "parse"
  /\ call.slug \in {<<"-","-">>, UuidTailSlug}
  /\ out[2].titleSlug = call.slug
  /\ out[2].uuid = call.uuid

\* C18: isTemplate(content) is true if and only if all four hold: fewer than
\* two **HH:MM** stamps occur, no '- [x]' marker occurs, the Started and Last
\* Updated times are not both present or are equal, and the Current State
\* placeholder sentence is still present; a freshly created template is
\* classified true, and false once a second stamped log line is appended.
C18_TemplateIffFourConditions ==
  /\ \A fn \in DOMAIN sessionFiles :
       LET content == sessionFiles[fn] IN
       isTemplate(content) <=>
         /\ Len(content.log) < 2
         /\ ~content.checked
         /\ \/ content.started = NoTime
            \/ content.lastUpdated = NoTime
            \/ content.started = content.lastUpdated
         /\ content.focusPlaceholder
  /\ \A sid \in Sessions, date \in Dates, time \in Times, later \in EditTimes :
       LET fresh == createSessionTemplate(sid, date, time) IN
       /\ isTemplate(fresh)
       /\ ~isTemplate(EditContent(fresh, "log", NoTitle, later))

\* the directory holds a template with one more stamped log line and nothing
\* else changed, next to a record with an item ticked
C18_Witness ==
  /\ call.hook = "edit"
  /\ \E fn \in DOMAIN sessionFiles, time \in Times, later \in EditTimes :
       /\ sessionFiles[fn] =
            EditContent(createSessionTemplate(fn.uuid, fn.date, time), "log", NoTitle, later)
       /\ ~isTemplate(sessionFiles[fn])
  /\ \E fn \in DOMAIN sessionFiles :
       /\ sessionFiles[fn].checked /\ Len(sessionFiles[fn].log) = 1
       /\ sessionFiles[fn].focusPlaceholder
       /\ ~isTemplate(sessionFiles[fn])

\* the title text of a record's content: what follows "# Session:" on the
\* heading line, trimmed; empty when the heading or its text is missing
TitleText(content) == IF content.heading THEN Trim(content.title) ELSE NoTitle
Unchanged(files) == [files |-> files, result |-> NoSession]

\* C19: renameSessionFromTitle is a no-op (returns null, the file keeps its
\* name, nothing on disk changes) whenever the title is missing, is one of
\* the placeholder strings, slugifies to the empty string, or slugifies to
\* the record's current slug.
C19_RenameNoOp ==
  \A fn \in DOMAIN sessionFiles :
    LET content == sessionFiles[fn]
        title == TitleText(content)
    IN (\/ title = NoTitle
        \/ title \in SESSION_TITLE_PLACEHOLDERS
        \/ slugifyTitle(title) = <<>>
        \/ slugifyTitle(title) = fn.titleSlug)
       => renameSessionFromTitle(sessionFiles, fn, content, FALSE) = Unchanged(sessionFiles)

\* C20: when the rename cannot be carried out, because permission is denied
\* or because a file with the target name already exists,
\* renameSessionFromTitle returns null, the source keeps its name and content
\* and the file at the target name is left as it was.
C20_RenameFailureSwallowed ==
  \A fn \in DOMAIN sessionFiles :
    LET content == sessionFiles[fn]
        target == renameTarget(fn, content)
    IN /\ renameSessionFromTitle(sessionFiles, fn, content, TRUE) = Unchanged(sessionFiles)
       /\ (target # NoSession /\ target \in DOMAIN sessionFiles) =>
            renameSessionFromTitle(sessionFiles, fn, content, FALSE) = Unchanged(sessionFiles)

\* ------------------------------------------------------ claims C21 to C30
\* C21: appendToSession on a path that is not a file returns false and leaves
\* the directory as it was (the file is not created); on an existing file,
\* when the append itself succeeds, it returns true, the file's log is the
\* old log with the entry at its end, and nothing else in the file or in the
\* directory changes.
C21_AppendNeverCreates ==
  [][call'.hook = "append" =>
       LET fn == call'.target IN
       IF fn \notin DOMAIN sessionFiles
         THEN out' = <<FALSE>> /\ sessionFiles' = sessionFiles
         ELSE ~call'.fault =>
                /\ out' = <<TRUE>>
                /\ DOMAIN sessionFiles' = DOMAIN sessionFiles
                /\ sessionFiles'[fn].log = Append(sessionFiles[fn].log, call'.entry)
                /\ [sessionFiles'[fn] EXCEPT !.log = sessionFiles[fn].log] = sessionFiles[fn]
                /\ \A f \in DOMAIN sessionFiles \ {fn} : sessionFiles'[f] = sessionFiles[f]]_vars

\* an append to a name that is not on disk, after a start trigger has run,
\* answered false
C21_Witness ==
  /\ call.hook = "append"
  /\ call.target \notin DOMAIN sessionFiles
  /\ ~call.fault
  /\ out = <<FALSE>>
  /\ workspaceFiles["memoryFile"] # None

\* C22: a pre-compaction trigger with a transcript reference leaves the flag
\* of its session holding this trigger's timestamp, percent and message count
\* (a missing number as 0) whatever flag was there before, leaves the other
\* flags alone and prints the empty object; an eligible periodic check that
\* finds a flag prints one compaction notice carrying that flag's message
\* count and removes the flag, and a check that finds none prints no
\* compaction notice: two triggers and then one check report the later count
\* once.
C22_FlagHoldsLatestPayload ==
  [][ /\ \A cid \in Ids, time \in Times, pct \in PctInputs, msgs \in MsgInputs :
           PreCompact(cid, TRUE, time, pct, msgs, "none") =>
             LET k == IF cid = NoId THEN DefaultId ELSE cid IN
             /\ flagFile'[k] = Some([timestamp |-> time,
                                     context_usage_percent |-> IF pct = NoVal THEN 0 ELSE pct,
                                     messages_to_compact |-> IF msgs = NoVal THEN 0 ELSE msgs])
             /\ \A j \in Keys \ {k} : flagFile'[j] = flagFile[j]
             /\ out' = <<EmptyObj>>
      /\ EligibleStop =>
           LET k == KeyOf(call') IN
           IF flagFile[k] # None
             THEN /\ out' = <<CompactMsg(flagFile[k][1].messages_to_compact)>>
                  /\ flagFile'[k] = None
             ELSE ~EmitsCompact(out')
    ]_vars

\* a check has just reported 0 messages: the flag it consumed came from a
\* trigger without numbers, and the record's log shows the one compaction
C22_Witness ==
  \E k \in Sessions :
    /\ WasEligibleStop /\ call.cid = k
    /\ out = <<CompactMsg(0)>>
    /\ flagFile[k] = None
    /\ \E fn \in DOMAIN sessionFiles :
         /\ fn.uuid = k
         /\ Len(sessionFiles[fn].log) = 2
         /\ \E t \in Times : sessionFiles[fn].log[2] = CompactionLogEntry(t, 0)

\* C23: a run of ensureWorkspaceSetup, called directly or by the start hook and
\* whether or not one of its writes fails, leaves every memory, persona and
\* user-profile file that exists with the content it had; and a call that
\* follows a successful call directly changes no file and returns the same
\* paths.
C23_NeverOverwritesIdempotent ==
  [][ /\ call'.hook \in {"setup", "start"} =>
           \A t \in StarterFiles :
             workspaceFiles[t] # None => workspaceFiles'[t] = workspaceFiles[t]
      /\ ( /\ call.hook = "setup" /\ out = <<WorkspacePaths>>
           /\ call'.hook = "setup" /\ call'.fault = "none" ) =>
           workspaceFiles' = workspaceFiles /\ out' = out
    ]_vars

\* a call has returned the paths with the memory file still holding what the
\* agent wrote and the persona file holding its starter text
C23_Witness ==
  /\ call.hook = "setup"
  /\ out = <<WorkspacePaths>>
  /\ workspaceFiles["memoryFile"] = Some(EditedText)
  /\ workspaceFiles["soulFile"] = Some(StarterText["soulFile"])

\* C24 (as stated): when the write of one target fails, every other target
\* that needed a write has been written afterwards and the caller gets the
\* paths.
C24_FailureNotFatal ==
  [][ (call'.hook = "setup" /\ call'.fault # "none") =>
        /\ out' = <<WorkspacePaths>>
        /\ \A t \in SetupTargets \ {call'.fault} :
             WritesTarget(workspaceFiles, t) => workspaceFiles'[t] = Some(StarterText[t])
    ]_vars

\* C25: whatever the input (stdin empty or not JSON, fields missing) and
\* whichever single file operation fails, a run of the start, count-tool,
\* periodic-check, pre-compaction or end hook ends with exit status 0, and a
\* run of the start, periodic-check or pre-compaction hook has printed exactly
\* one JSON object.
C25_ExitZeroOneObject ==
  [][ call'.hook \in {"start", "count", "stop", "precompact", "end"} =>
        /\ exitCode' = 0
        /\ call'.hook \in {"start", "stop", "precompact"} =>
             /\ Len(out') = 1
             /\ out'[1].kind \in {"empty", "compact", "first", "progress",
                                  "context", "context-empty"}
    ]_vars

\* a periodic check whose flag delete failed and whose cleanup delete failed
\* too has ended with status 0 and the empty object, the flag still on disk
C25_Witness ==
  \E k \in Sessions :
    /\ call.hook = "stop" /\ call.cid = k
    /\ call.fault = "flagDelete" /\ call.cleanupFails
    /\ flagFile[k] # None
    /\ exitCode = 0
    /\ out = <<EmptyObj>>

\* the directory entry a listed record was made from
EntryOf(dir, info) == CHOOSE i \in 1..Len(dir) : dir[i].name = info.filename

\* C26: every record listSessions returns comes from a .tmp entry of the
\* directory and passes each filter that was asked for (its parsed UUID is not
\* the excluded one, it was modified within maxAge days, it is readable and not
\* a template when excludeTemplates is set); the records are in descending
\* order of modification time and at most `limit` (50 by default) of them; an
\* unreadable directory gives the empty list. With the options of the start
\* hook no record of the current session and no untouched template is listed.
C26_ListFiltersOrderLimit ==
  (call.hook = "list") =>
    LET dir == call.dir
        opts == call.opts
    IN /\ \A i \in 1..Len(out) :
            /\ \E j \in 1..Len(dir) : dir[j].name = out[i].filename
            /\ LET e == dir[EntryOf(dir, out[i])] IN
               /\ out[i].mtime = e.mtime
               /\ opts.exclude # NoExclude => out[i].uuid # opts.exclude
               /\ opts.maxAge # NoVal => NowDay - e.mtime <= opts.maxAge
               /\ opts.excludeTemplates => e.readable /\ ~isTemplate(e.content)
               /\ \A id \in UuidInputs :
                    opts = StartListOptions(id) =>
                      /\ SubSeq(e.name, Len(e.name) - 39, Len(e.name) - 4) # id
                      /\ e.content # createSessionTemplate("u1", "2026-01-01", "09:00")
       /\ \A i \in 1..Len(out) - 1 : out[i].mtime >= out[i + 1].mtime
       /\ Len(out) <= (IF opts.limit = NoVal THEN 50 ELSE opts.limit)
       /\ call.readdirFails => out = <<>>

\* the start hook's options for session Uuid1 over a directory holding that
\* session's fresh template, another session's template and another session's
\* used record: only the last is listed
C26_Witness ==
  /\ call.hook = "list"
  /\ call.opts = StartListOptions(Uuid1Text)
  /\ Len(call.dir) = 3
  /\ \E i \in 1..3 : call.dir[i].name = FilenameText(Day1, DefaultSlug, Uuid1Text)
  /\ \E i \in 1..3 : /\ call.dir[i].name = FilenameText(Day1, DefaultSlug, Uuid2Text)
                     /\ call.dir[i].mtime = 9
  /\ Len(out) = 1
  /\ out[1].filename = FilenameText(Day2, FixSlug, Uuid2Text)

\* the records of conversation k
RecordsOf(files, k) == [fn \in {f \in DOMAIN files : f.uuid = k} |-> files[fn]]

\* C27: a start, count-tool, periodic-check, pre-compaction or end invocation
\* for conversation A leaves the stored count, the last-notified count, the
\* compaction flag and the session records of every other conversation B of
\* the same project as they were.
C27_SessionsIsolated ==
  [][ call'.hook \in {"start", "count", "stop", "precompact", "end"} =>
        \A b \in HostIds \ {call'.cid} :
          /\ toolCountFile'[b] = toolCountFile[b]
          /\ lastNotifiedFile'[b] = lastNotifiedFile[b]
          /\ flagFile'[b] = flagFile[b]
          /\ RecordsOf(sessionFiles', b) = RecordsOf(sessionFiles, b)
    ]_vars

\* the end trigger of u1 has renamed its record to the slug that the record of
\* u2 carries too, each conversation holding its own count and last-notified
\* value
C27_Witness ==
  /\ call.hook = "end" /\ call.cid = "u1"
  /\ \E f1, f2 \in DOMAIN sessionFiles :
       /\ f1.uuid = "u1" /\ f2.uuid = "u2"
       /\ f1.titleSlug = f2.titleSlug
       /\ f1.titleSlug # DefaultSlug
  /\ toolCountFile["u2"] = Some(<<2>>)
  /\ lastNotifiedFile["u2"] = Some(<<0>>)
  /\ toolCountFile["u1"] = Some(<<5, 1>>)
  /\ lastNotifiedFile["u1"] = Some(<<5, 0>>)

\* C28 (as stated): when the last of two overlapping count-tool invocations
\* has written, the stored count is c + 1 or c + 2, c being the stored count
\* when the first of the two began.
C28_LostIncrementOnly ==
  [][ ( /\ call'.hook = "countStep" /\ call'.step = "write"
        /\ call'.group = 2
        /\ \A p \in Procs : inflight'[p] = None ) =>
        Num(toolCountFile'[call'.cid]) \in {call'.base + 1, call'.base + 2}
    ]_vars

\* C29: a periodic check that emits a milestone notice emits the First Update
\* text exactly when floor(toolCallCount / 50) = 1 and the slug of the
\* conversation's record is still "session"; otherwise it emits the progress
\* text carrying the current count.
C29_FirstUpdateIff ==
  [][ (EligibleStop /\ EmitsMilestone(out')) =>
        LET k == KeyOf(call')
            c == Num(toolCountFile[k])
            unnamed == \E fn \in DOMAIN sessionFiles :
                         fn.uuid = k /\ fn.titleSlug = <<"s","e","s","s","i","o","n">>
        IN out' = IF c \div 50 = 1 /\ unnamed THEN <<FirstUpdateMsg>>
                                             ELSE <<ProgressMsg(c)>>
    ]_vars

\* the first milestone of a record that already carries its title slug: the
\* progress text with the count 50
C29_Witness ==
  \E k \in Sessions :
    /\ WasEligibleStop /\ call.cid = k
    /\ out = <<ProgressMsg(50)>>
    /\ lastNotifiedFile[k] = Some(<<5, 0>>)
    /\ \E fn \in DOMAIN sessionFiles : fn.uuid = k /\ fn.titleSlug # DefaultSlug


\* C30: in the transcript-scanning stop hook, a compaction handling that runs
\* to its end stores the raw marker count of the transcript as the offset and
\* 0 as the last-notified count, which makes the effective count
\* max(0, raw - offset) zero; from then on the effective count is the number
\* of markers added to the transcript since that handling, and it is the
\* number a later milestone reports and stores.
C30_OffsetResetsEffective ==
  [][ \A k \in Sessions :
        LET effective == EffectiveToolCount(transcriptFile'[k], toolOffsetFile'[k]) IN
        /\ ( /\ call'.hook = "legacystop" /\ call'.cid = k /\ call'.fault = "none"
             /\ ~SkipCheck(call'.loop, call'.tp) /\ flagFile[k] # None )
           => /\ toolOffsetFile'[k] = Some(ToStr(transcriptFile[k]))
              /\ lastNotifiedFile'[k] = Some(<<0>>)
              /\ effective = 0
        /\ toolOffsetFile'[k] # None => effective = sinceReset'[k]
        /\ ( /\ call'.hook = "legacystop" /\ call'.cid = k /\ EmitsMilestone(out')
             /\ toolOffsetFile[k] # None )
           => /\ lastNotifiedFile'[k] = Some(ToStr(sinceReset[k]))
              /\ out'[1].kind = "progress" => out'[1].n = sinceReset[k]
    ]_vars
\* C30 witness: a milestone fired at 50 markers after a compaction that was
\* handled when the transcript already held markers.
C30_Witness ==
  \E k \in Sessions :
    /\ call.hook = "legacystop" /\ call.cid = k
    /\ EmitsMilestone(out)
    /\ toolOffsetFile[k] # None /\ ReadOffset(toolOffsetFile[k]) > 0
    /\ transcriptFile[k] = ReadOffset(toolOffsetFile[k]) + INTERVAL
    /\ lastNotifiedFile[k] = Some(<<5, 0>>)
    /\ sinceReset[k] = INTERVAL


\* ------------------------------------------------------ claims C31 to C40

\* C31: without compaction, the transcript-scanning hook and the direct-counter
\* hook, checked side by side on the same counts with the record present, emit
\* a notification at the same checks and store the same last-notified count.
C31_VariantsEquivalent ==
  [][ call'.hook = "twincheck" =>
        /\ EmitsMilestone(<<out'[1]>>) <=> EmitsMilestone(<<out'[2]>>)
        /\ ReadLastNotified(lastNotifiedFile'[TwinDirect])
             = ReadLastNotified(lastNotifiedFile'[TwinLegacy])
    ]_vars


\* the stored count of conversation k has reached its last-notified count + 50
ThresholdPending(k) ==
  ThresholdReached(Num(toolCountFile[k]), Num(lastNotifiedFile[k]))

\* C32 (as stated): a periodic check that finds the threshold reached and no
\* session record prints the empty object and leaves the last-notified count
\* as it is, and a periodic check that finds the threshold reached and the
\* record present emits the milestone notification.
C32_Original ==
  [][ (EligibleStop /\ ThresholdPending(KeyOf(call'))) =>
        LET k == KeyOf(call') IN
        /\ (flagFile[k] = None /\ ~HasRecord(sessionFiles, k))
             => out' = <<EmptyObj>> /\ lastNotifiedFile'[k] = lastNotifiedFile[k]
        /\ HasRecord(sessionFiles, k) => EmitsMilestone(out')
    ]_vars

\* C32 (amended): a periodic check without a pending compaction flag that finds
\* the threshold reached and no session record prints the empty object and
\* leaves the last-notified count as it is; such a check emits the milestone
\* notification as soon as the record exists. A check that finds the compaction
\* flag emits no milestone and resets both counts, which drops the pending
\* milestone.
C32_DeferredUntilRecord ==
  [][ (EligibleStop /\ ThresholdPending(KeyOf(call'))) =>
        LET k == KeyOf(call') IN
        /\ (flagFile[k] = None /\ ~HasRecord(sessionFiles, k))
             => /\ out' = <<EmptyObj>>
                /\ lastNotifiedFile'[k] = lastNotifiedFile[k]
                /\ ThresholdReached(Num(toolCountFile'[k]), Num(lastNotifiedFile'[k]))
        /\ (flagFile[k] = None /\ HasRecord(sessionFiles, k))
             => /\ EmitsMilestone(out')
                /\ lastNotifiedFile'[k] = toolCountFile[k]
        /\ flagFile[k] # None
             => /\ ~EmitsMilestone(out')
                /\ ~ThresholdReached(Num(toolCountFile'[k]), Num(lastNotifiedFile'[k]))
    ]_vars
\* C32 witness: a check at a count past 50 found no record, printed the empty
\* object, and the milestone is still pending.
C32_Witness ==
  \E k \in Sessions :
    /\ WasEligibleStop /\ call.cid = k
    /\ out = <<EmptyObj>>
    /\ flagFile[k] = None
    /\ ~HasRecord(sessionFiles, k)
    /\ ThresholdPending(k)
    /\ lastNotifiedFile[k] = None


\* C33: a start trigger whose default-named record of the day exists leaves
\* every record as it is, the agent's edits included, and initSession reports
\* isNew = false; when that file is absent the template is written under the
\* default name and isNew is true.
C33_StartKeepsExistingRecord ==
  [][ (call'.hook = "start" /\ call'.fault = "none") =>
        \E date \in Dates, time \in Times :
          LET sessionFile == buildSessionFilename(date, call'.cid) IN
          IF sessionFile \in DOMAIN sessionFiles
            THEN /\ sessionFiles' = sessionFiles
                 /\ ~initSessionIsNew(sessionFiles, call'.cid, date)
            ELSE /\ sessionFiles' = AddFile(sessionFiles, sessionFile,
                                      createSessionTemplate(call'.cid, date, time))
                 /\ initSessionIsNew(sessionFiles, call'.cid, date)
    ]_vars
\* C33 witness: a start trigger has run on a record the agent had edited, and
\* the edited content is still there.
C33_Witness ==
  /\ call.hook = "start" /\ call.fault = "none"
  /\ \E date \in Dates, time \in Times :
       LET sessionFile == buildSessionFilename(date, call.cid) IN
       /\ sessionFile \in DOMAIN sessionFiles
       /\ sessionFiles[sessionFile] # createSessionTemplate(call.cid, date, time)


\* C34: with every file operation succeeding, the stored last-notified count
\* of a conversation never exceeds its stored tool-call count, whatever the
\* order of tool calls, periodic checks and compactions.
C34_NotifiedAtMostCount ==
  \A k \in Keys : Num(lastNotifiedFile[k]) <= Num(toolCountFile[k])
\* C34 witness: the second milestone has just been stored, at a count of 100 or
\* more, and the two stored counts are equal.
C34_Witness ==
  \E k \in Sessions :
    /\ WasEligibleStop /\ call.cid = k /\ EmitsMilestone(out)
    /\ lastNotifiedFile[k] = toolCountFile[k]
    /\ Num(toolCountFile[k]) >= 2 * INTERVAL


\* the stored count of k is at least its last-notified count + 50 and a record exists
MilestoneDue(k) ==
  /\ Num(toolCountFile[k]) >= Num(lastNotifiedFile[k]) + INTERVAL
  /\ HasRecord(sessionFiles, k)
MilestoneEmitted(k) == WasEligibleStop /\ call.cid = k /\ EmitsMilestone(out)
CompactionHandled(k) == WasEligibleStop /\ call.cid = k /\ EmitsCompact(out)

\* C35 (as stated): with tool calls and eligible checks that keep occurring,
\* the record present and file operations succeeding, a count that has reached
\* the last-notified count + 50 always leads to a milestone notification.
C35_Original ==
  \A k \in Sessions : MilestoneDue(k) ~> MilestoneEmitted(k)

\* C35 (amended): under the same conditions, a count that has reached the
\* last-notified count + 50 always leads to a periodic check that either emits
\* the milestone notification or handles a compaction, which resets both
\* counts.
C35_DueLeadsToCheck ==
  \A k \in Sessions : MilestoneDue(k) ~> (MilestoneEmitted(k) \/ CompactionHandled(k))
\* C35 witness: the second notification of a conversation, at 100 tool calls
\* after one at fewer than 100.
C35_Witness ==
  \E k \in Sessions :
    /\ MilestoneEmitted(k)
    /\ out = <<ProgressMsg(2 * INTERVAL)>>
    /\ sinceReset[k] = 2 * INTERVAL


\* C36: once a compaction has been handled for a conversation, an end trigger
\* deletes none of the records that existed at that handling: every record of
\* the conversation is still there after the end trigger.
C36_KeptAfterCompaction ==
  [][ (call'.hook = "end" /\ lastNotifiedFile[KeyOf(call')] # None) =>
        \A fn \in DOMAIN sessionFiles :
          fn.uuid = KeyOf(call') => fn \in DOMAIN sessionFiles'
    ]_vars


\* the compaction follow-up messages among the printed lines
RECURSIVE CompactMessages(_)
CompactMessages(o) ==
  IF o = <<>> THEN 0
  ELSE (IF Head(o).kind = "compact" THEN 1 ELSE 0) + CompactMessages(Tail(o))
\* the step ends the last of two overlapping periodic checks
LastOfTwoChecks ==
  /\ call'.hook = "stopStep" /\ call'.step \in {"finish", "evaluate"}
  /\ call'.group = 2
  /\ \A p \in Procs : inflight'[p] = None

\* C37: when two overlapping periodic checks of one conversation that both
\* found the compaction flag have finished, at most one of them has printed the
\* compaction follow-up message, at most one compaction line has been added to
\* the records of the conversation, and the flag file is gone.
C37_OneHandlerOfFlag ==
  [][ LastOfTwoChecks =>
        /\ CompactMessages(out') <= 1
        /\ LoggedCompactions(sessionFiles', call'.cid) <= call'.base + 1
        /\ flagFile'[call'.cid] = None
    ]_vars
\* C37 witness: two overlapping checks have finished; one printed the
\* compaction message and logged the line, the other printed the empty object.
C37_Witness ==
  /\ call.hook = "stopStep" /\ call.step \in {"finish", "evaluate"}
  /\ call.group = 2
  /\ \A p \in Procs : inflight[p] = None
  /\ Len(out) = 2 /\ CompactMessages(out) = 1
  /\ \E i \in 1..2 : out[i] = EmptyObj
  /\ LoggedCompactions(sessionFiles, call.cid) = call.base + 1


\* C38: when one count-tool invocation and one periodic check that handles the
\* compaction flag have overlapped and both have finished, the stored
\* tool-call count is 0 or 1.
C38_ResetNotUndone ==
  [][ ( /\ call'.hook \in {"stopStep", "countStep"}
        /\ call'.step \in {"finish", "write"}
        /\ call'.group = 2
        /\ \A p \in Procs : inflight'[p] = None ) =>
        Num(toolCountFile'[call'.cid]) \in {0, 1}
    ]_vars


SlugChars == {LowerChars[i] : i \in 1..26} \cup DigitChars \cup {"-"}

\* C39: whatever the title, the value slugifyTitle returns holds only
\* characters of [a-z0-9-], is at most 60 characters long, holds no two
\* hyphens in a row, and neither starts nor ends with a hyphen.
C39_SlugWellFormed ==
  call.hook = "slugify" =>
    LET slug == out[1] IN
    /\ \A i \in 1..Len(slug) : slug[i] \in SlugChars
    /\ Len(slug) <= SLUG_MAX
    /\ \A i \in 1..(Len(slug) - 1) : ~(slug[i] = "-" /\ slug[i + 1] = "-")
    /\ slug # <<>> => slug[1] # "-" /\ slug[Len(slug)] # "-"


\* C40: an end trigger does not delete a record whose title line carries a
\* real title instead of the placeholder: the record is still there
\* afterwards, under its name or renamed.
C40_TitledRecordKept ==
  [][ (ResolvedEnd /\ call'.fault = "none") =>
        \A fn \in findSession(sessionFiles, KeyOf(call')) :
          HasRealTitle(sessionFiles[fn]) =>
            \/ fn \in DOMAIN sessionFiles' /\ sessionFiles'[fn] = sessionFiles[fn]
            \/ RenamedFrom(sessionFiles, sessionFiles', fn)
    ]_vars

====
